---------------------------- MODULE Spec2Model ----------------------------
(***************************************************************************)
(* Model of the macrodata memory layer: the transcript exchange extractor, *)
(* the incremental conversation index, the journal/entity memory index and *)
(* the daemon's debounced file-change reindexing.                          *)
(*                                                                         *)
(* Text is a sequence of tokens.  A token is a run of n characters: plain  *)
(* characters taken from the start of a named literal (chars), whitespace  *)
(* (ws), or one of the marker strings the code looks for (marker).         *)
(***************************************************************************)
EXTENDS Integers, Sequences, FiniteSets, TLC

VARIABLES
    \* ---- exchange extractor (parseConversationFile's loop) ----
    currentUser,    \* the pending user turn: NoUser or [msg, text]
    exchanges,      \* the exchanges emitted so far, in order
    lineNo,         \* number of transcript lines processed
    lastLine,       \* the line processed by the last step
    \* ---- conversation index (conversations.ts) ----
    fs,             \* transcript files on disk: present, mtime, content
    persisted,      \* conversations-state.json: exists, state
    convStore,      \* items of the conversations vector index
    indexCreated,   \* whether the conversations index exists on disk
    clock,          \* wall clock (new Date()), advanced when a pass starts
    pass,           \* per pass slot: the running pass and its locals
    prevUpdate,     \* result of the last update that ran alone, if still valid
    \* ---- memory index (indexer.ts) and the daemon's file watcher ----
    journal,        \* today's journal partition: the entries appended so far
    entities,       \* entity documents on disk: which files are present
    memStore,       \* items of the memory vector index
    mclock,         \* wall clock in milliseconds (new Date() in log_journal)
    memOp,          \* outcome of the last manage_index(memory, ...) call
    memBase,        \* item count of the last pass, while no source changed
    reindexQueue,   \* daemon: this.reindexQueue
    timers,         \* daemon: the pending timeouts, each with its age
    reindexTimer,   \* daemon: this.reindexTimer (0 for null)
    sinceLast,      \* time since the last watcher event (saturating)
    burst,          \* paths of the watcher events since the last pass began
    reindex,        \* daemon: per slot, a processReindexQueue call
    \* ---- retrieval (searchConversations, searchMemory) ----
    convHits,       \* conversations index: its items, nearest to the query first
    memHits,        \* memory index: its items, nearest to the query first
    search,         \* the last search call: its arguments and what it returned
    \* ---- operations studied on their own ----
    input,          \* the disk, document or journal the operation is given
    output,         \* what the operation returned
    \* ---- the hook script (macrodata-hook.sh) ----
    stateDisk,      \* mtime of each state file, and .context-lastmod.json
    sessions,       \* per session: where its hook run stands, what it was shown
    \* ---- the daemon process, its schedules and the pending-context file ----
    pidFile,        \* .daemon.pid: the process it names, if the file exists
    procs,          \* per daemon process: how far it has started, this.cronJobs
    schedules,      \* .schedules.json
    fired,          \* the fireSchedule calls made so far, in order
    wallNow,        \* Date.now()
    pendingFile,    \* .pending-context: the messages it holds
    consumer,       \* per prompt hook: where its read-then-clear stands
    delivered,      \* the messages shown at prompts so far
    \* ---- the memoized index accessor (getIndex) ----
    stateRoot,      \* the configured state root
    handle,         \* the module's cached index and indexPath
    indexDisk,      \* per storage path: how often the index was created there
    callers         \* per caller of getIndex: where it stands, what it got

parseVars == <<currentUser, exchanges, lineNo, lastLine>>
convVars == <<fs, persisted, convStore, indexCreated, clock, pass, prevUpdate>>

memVars == <<journal, entities, memStore, mclock, memOp, memBase,
             reindexQueue, timers, reindexTimer, sinceLast, burst, reindex>>

searchVars == <<convHits, memHits, search>>
callVars == <<input, output>>
hookVars == <<stateDisk, sessions>>
schedVars == <<pidFile, procs, schedules, fired, wallNow>>
pendVars == <<pendingFile, consumer, delivered>>
handleVars == <<stateRoot, handle, indexDisk, callers>>
sysVars == <<schedVars, pendVars, handleVars>>

vars == <<currentUser, exchanges, lineNo, lastLine,
          fs, persisted, convStore, indexCreated, clock, pass, prevUpdate,
          journal, entities, memStore, mclock, memOp, memBase,
          reindexQueue, timers, reindexTimer, sinceLast, burst, reindex,
          convHits, memHits, search, input, output,
          stateDisk, sessions, pidFile, procs, schedules, fired, wallNow,
          pendingFile, consumer, delivered, stateRoot, handle, indexDisk, callers>>

-----------------------------------------------------------------------------
(* Bounds of the model *)

MaxLines == 3
MaxMtime == 2
MaxClock == 2

-----------------------------------------------------------------------------
(* Program constants *)

AssistantSummaryMax == 500
UserPromptMax == 1000
MinPromptLen == 10

-----------------------------------------------------------------------------
(* Text *)

Chars(tag, n) == [k |-> "chars", tag |-> tag, n |-> n]
Ws(n) == [k |-> "ws", tag |-> " ", n |-> n]

Marker(tag, n) == [k |-> "marker", tag |-> tag, n |-> n]

EmptyText == << >>

RECURSIVE TextLen(_)
TextLen(t) == IF t = << >> THEN 0 ELSE Head(t).n + TextLen(Tail(t))

\* String.prototype.startsWith / includes for one of the marker strings
StartsWith(t, m) == t # << >> /\ t[1] = m
Includes(t, m) == \E i \in 1..Len(t) : t[i] = m

\* String.prototype.trim
RECURSIVE TrimStart(_)
TrimStart(t) ==
    IF t # << >> /\ Head(t).k = "ws" THEN TrimStart(Tail(t)) ELSE t

RECURSIVE TrimEnd(_)
TrimEnd(t) ==
    IF t # << >> /\ t[Len(t)].k = "ws"
    THEN TrimEnd(SubSeq(t, 1, Len(t) - 1))
    ELSE t

Trim(t) == TrimEnd(TrimStart(t))

\* String.prototype.slice(0, max): the first max characters.  A token cut
\* short keeps its literal and kind; a cut marker is no longer the marker.
CutToken(tok, n) ==
    IF tok.k = "marker" THEN [k |-> "chars", tag |-> tok.tag, n |-> n]
    ELSE [tok EXCEPT !.n = n]

RECURSIVE SliceTo(_, _)
SliceTo(t, max) ==
    IF t = << >> \/ max <= 0 THEN << >>
    ELSE IF Head(t).n <= max
         THEN <<Head(t)>> \o SliceTo(Tail(t), max - Head(t).n)
         ELSE <<CutToken(Head(t), max)>>

-----------------------------------------------------------------------------
(* Message content *)

NoContent == [t |-> "none", text |-> << >>, blocks |-> << >>]
Str(text) == [t |-> "string", text |-> text, blocks |-> << >>]
Blocks(bs) == [t |-> "blocks", text |-> << >>, blocks |-> bs]

\* a content block: hasText says whether it has a string text field,
\* tool_use_id whether it carries a tool_use_id
Block(type, hasText, text, hasToolUseId) ==
    [type |-> type, hasText |-> hasText, text |-> text,
     tool_use_id |-> hasToolUseId]
TextBlock(text) == Block("text", TRUE, text, FALSE)
ThinkingBlock == Block("thinking", FALSE, << >>, FALSE)
ToolUseBlock == Block("tool_use", FALSE, << >>, FALSE)
ToolResultBlock == Block("tool_result", FALSE, << >>, TRUE)

\* truthiness of msg.message?.content: a missing content and the empty
\* string are falsy, every array is truthy
HasContent(c) ==
    CASE c.t = "none" -> FALSE
      [] c.t = "string" -> c.text # << >>
      [] c.t = "blocks" -> TRUE


-----------------------------------------------------------------------------
(* Transcript lines and paths *)

NoVal == "undefined"
Falsy(v) == v = NoVal \/ v = ""
OrElse(v, w) == IF Falsy(v) THEN w ELSE v

\* a line that JSON.parse rejects, or whose value is not an object
Line(type, content, uuid, sessionId, gitBranch, timestamp) ==
    [type |-> type, content |-> content, uuid |-> uuid,
     sessionId |-> sessionId, gitBranch |-> gitBranch,
     timestamp |-> timestamp]

MalformedLine == Line("malformed", NoContent, NoVal, NoVal, NoVal, NoVal)

\* a file path: directory segments, file stem and extension
Path(dir, stem, ext) == [dir |-> dir, stem |-> stem, ext |-> ext]

\* path.basename(p, ext)
BasenameNoExt(p, ext) == IF p.ext = ext THEN p.stem ELSE p.stem \o p.ext

\* "-Users-me-repo" is held as its "-"-separated pieces <<"", "Users", ...>>;
\* replacing every "-" by "/" makes each piece a path segment
decodeProjectPath(encoded) ==
    IF encoded # << >> /\ encoded[1] = "" THEN Tail(encoded) ELSE encoded

getProjectName(projectPath) ==
    IF projectPath = << >> THEN "" ELSE projectPath[Len(projectPath)]

-----------------------------------------------------------------------------
(* Exchange extractor: the pure helpers *)

\* the first index of a set of indices (where a loop over the sequence
\* returns or breaks), 0 when the set is empty
FirstIndex(S) == IF S = {} THEN 0 ELSE CHOOSE i \in S : \A j \in S : i <= j

extractAssistantText(content) ==
    IF content.t = "string" THEN SliceTo(content.text, AssistantSummaryMax)
    ELSE IF content.t = "blocks"
    THEN LET IsText(b) == b.type = "text" /\ b.hasText /\ b.text # << >>
             i == FirstIndex({j \in 1..Len(content.blocks) :
                                IsText(content.blocks[j])})
         IN  IF i = 0 THEN EmptyText
             ELSE SliceTo(content.blocks[i].text, AssistantSummaryMax)
    ELSE EmptyText

IsToolBlock(b) == b.type = "tool_result" \/ b.tool_use_id

isToolResult(content) ==
    /\ content.t = "blocks"
    /\ \E i \in 1..Len(content.blocks) : IsToolBlock(content.blocks[i])

isNoiseContent(text) ==
    \/ StartsWith(text, Marker("This session is being continued from a previous conversation", 60))
    \/ Includes(text, Marker("<local-command-stdout>", 22))
    \/ Includes(text, Marker("<local-command-caveat>", 22))
    \/ Includes(text, Marker("<command-name>", 14))
    \/ StartsWith(text, Marker("<current_time>", 14))
    \/ StartsWith(text, Marker("<context_status>", 16))
    \/ StartsWith(text, Marker("<state_files>", 13))
    \/ StartsWith(text, Marker("<system-reminder>", 17))
    \/ StartsWith(text, Marker("## Current State Files", 22))
    \/ StartsWith(text, Marker("Base directory for this skill:", 30))
    \/ TextLen(Trim(text)) < MinPromptLen

\* text.match(/\nUser message: (.+)$/s): the leftmost marker that is followed
\* by at least one character; the capture runs to the end of the text
UserMessagePayload(text) ==
    LET IsMarker(tok) == tok = Marker("\nUser message: ", 15)
        i == FirstIndex({j \in 1..Len(text) : IsMarker(text[j])})
    IN  IF i = 0 \/ i = Len(text) THEN [found |-> FALSE, text |-> EmptyText]
        ELSE [found |-> TRUE, text |-> SubSeq(text, i + 1, Len(text))]

extractUserText(content) ==
    LET IsUserText(b) == ~IsToolBlock(b) /\ b.type = "text" /\ b.hasText
        i == IF content.t = "blocks"
             THEN FirstIndex({j \in 1..Len(content.blocks) :
                                IsUserText(content.blocks[j])})
             ELSE 0
        text == IF content.t = "string" THEN content.text
                ELSE IF i # 0 THEN content.blocks[i].text
                ELSE EmptyText
        m == UserMessagePayload(text)
    IN  IF text = EmptyText THEN EmptyText
        ELSE IF StartsWith(text, Marker("# Agent Context", 15))
                \/ Includes(text, Marker("\nUser message: ", 15))
        THEN IF m.found THEN Trim(m.text) ELSE EmptyText
        ELSE text

-----------------------------------------------------------------------------
(* Exchange extractor: one iteration of parseConversationFile's loop *)

NoUser == [set |-> FALSE, msg |-> MalformedLine, text |-> EmptyText]

ExchangeId(msg) == <<"conv", msg.sessionId, msg.uuid>>

MakeExchange(user, assistantText, filePath, projectPath, now) ==
    [id |-> ExchangeId(user.msg),
     userPrompt |-> SliceTo(user.text, UserPromptMax),
     assistantSummary |-> assistantText,
     project |-> getProjectName(projectPath),
     projectPath |-> projectPath,
     branch |-> user.msg.gitBranch,
     timestamp |-> OrElse(user.msg.timestamp, now),
     sessionId |-> OrElse(user.msg.sessionId, BasenameNoExt(filePath, ".jsonl")),
     sessionPath |-> filePath,
     messageUuid |-> OrElse(user.msg.uuid, "")]

\* the user branch: a discarded record leaves the state as it was
AcceptsUser(line) ==
    /\ ~isToolResult(line.content)
    /\ extractUserText(line.content) # EmptyText
    /\ ~isNoiseContent(extractUserText(line.content))

\* UserStep assigning currentUser before the noise check, so that a
\* discarded record overwrites the pending turn
UserStepAssignsBeforeCheck(st, line) ==
    IF isToolResult(line.content) THEN st
    ELSE [st EXCEPT !.currentUser =
              [set |-> AcceptsUser(line), msg |-> line,
               text |-> extractUserText(line.content)]]

UserStep(st, line) ==
    IF AcceptsUser(line)
    THEN [st EXCEPT !.currentUser =
              [set |-> TRUE, msg |-> line,
               text |-> extractUserText(line.content)]]
    ELSE st

\* the assistant branch, taken only with a pending user turn and content
EmitsExchange(st, line) ==
    st.currentUser.text # EmptyText /\ extractAssistantText(line.content) # EmptyText

\* AssistantStep with the reset of the pending turn moved inside the
\* "if (currentUser.text && assistantText)" block
AssistantStepResetOnlyOnEmit(st, line, filePath, projectPath, now) ==
    IF EmitsExchange(st, line)
    THEN [currentUser |-> NoUser,
          exchanges |->
            Append(st.exchanges,
                   MakeExchange(st.currentUser, extractAssistantText(line.content),
                                filePath, projectPath, now))]
    ELSE st

\* AssistantStep without the reset of the pending turn
AssistantStepKeepsPending(st, line, filePath, projectPath, now) ==
    [currentUser |-> st.currentUser,
     exchanges |->
        IF EmitsExchange(st, line)
        THEN Append(st.exchanges,
                    MakeExchange(st.currentUser, extractAssistantText(line.content),
                                 filePath, projectPath, now))
        ELSE st.exchanges]

AssistantStep(st, line, filePath, projectPath, now) ==
    [currentUser |-> NoUser,
     exchanges |->
        IF EmitsExchange(st, line)
        THEN Append(st.exchanges,
                    MakeExchange(st.currentUser, extractAssistantText(line.content),
                                 filePath, projectPath, now))
        ELSE st.exchanges]

\* ProcessLine dropping the pending turn at a line that does not parse
ProcessLineMalformedResets(st, line, filePath, projectPath, now) ==
    IF line.type = "malformed" THEN [st EXCEPT !.currentUser = NoUser]
    ELSE IF line.type = "user" /\ HasContent(line.content)
    THEN UserStep(st, line)
    ELSE IF line.type = "assistant" /\ st.currentUser.set
            /\ HasContent(line.content)
    THEN AssistantStep(st, line, filePath, projectPath, now)
    ELSE st

\* ProcessLine taking a user record only while no turn is pending, so that
\* the first unanswered turn is kept
ProcessLineKeepsFirstUser(st, line, filePath, projectPath, now) ==
    IF line.type = "malformed" THEN st
    ELSE IF line.type = "user" /\ HasContent(line.content)
    THEN (IF st.currentUser.set THEN st ELSE UserStep(st, line))
    ELSE IF line.type = "assistant" /\ st.currentUser.set
            /\ HasContent(line.content)
    THEN AssistantStep(st, line, filePath, projectPath, now)
    ELSE st

ProcessLine(st, line, filePath, projectPath, now) ==
    IF line.type = "malformed" THEN st
    ELSE IF line.type = "user" /\ HasContent(line.content)
    THEN UserStep(st, line)
    ELSE IF line.type = "assistant" /\ st.currentUser.set
            /\ HasContent(line.content)
    THEN AssistantStep(st, line, filePath, projectPath, now)
    ELSE st

RECURSIVE ParseLines(_, _, _, _, _)
ParseLines(st, lines, filePath, projectPath, now) ==
    IF lines = << >> THEN st
    ELSE ParseLines(ProcessLine(st, Head(lines), filePath, projectPath, now),
                    Tail(lines), filePath, projectPath, now)

\* parseConversationFile on a readable file holding these lines
parseConversationFile(lines, filePath, projectPath, now) ==
    ParseLines([currentUser |-> NoUser, exchanges |-> << >>],
               lines, filePath, projectPath, now).exchanges

-----------------------------------------------------------------------------
(* Transcript lines fed to the extractor *)

UserContents ==
    { Str(<<Chars("Fix the bug", 11)>>),
      Blocks(<<ToolResultBlock>>),
      Blocks(<<TextBlock(<<Chars("Please also run the tests", 25)>>), ToolResultBlock>>),
      Blocks(<<Block("text", TRUE, <<Chars("tool output text", 16)>>, TRUE)>>),
      Blocks(<<TextBlock(<<Chars("Add a unit test for it", 22)>>)>>),
      Blocks(<<TextBlock(<< >>), TextBlock(<<Chars("Second block text", 17)>>)>>),
      Blocks(<< >>),
      Str(<<Marker("<local-command-stdout>", 22), Chars("ls output</local-command-stdout>", 32)>>),
      Str(<<Chars("see", 3), Ws(1), Marker("<command-name>", 14), Chars("/clear</command-name>", 21)>>),
      Str(<<Marker("This session is being continued from a previous conversation", 60), Chars(". Summary of the work so far", 28)>>),
      Str(<<Marker("<system-reminder>", 17), Chars("remember the rules</system-reminder>", 36)>>),
      Str(<<Chars("ok", 2)>>),
      Str(<<Ws(4), Chars("thanks", 6), Ws(4)>>),
      Str(<<Ws(1), Chars("Explain the failing build", 25)>>),
      Str(<<Marker("# Agent Context", 15), Chars("\ncwd: /repo", 11), Marker("\nUser message: ", 15),
            Chars("Deploy the service", 18), Ws(1)>>),
      Str(<<Marker("# Agent Context", 15), Chars("\ncwd: /repo", 11)>>),
      Str(<<Chars("note", 4), Marker("\nUser message: ", 15)>>),
      Str(<<Chars("A long prompt", 1200)>>),
      Str(<< >>),
      NoContent }

AssistantContents ==
    { Str(<<Chars("Fixed it by adding a mutex", 26)>>),
      Blocks(<<ThinkingBlock, TextBlock(<<Chars("Done, tests pass", 16)>>)>>),
      Blocks(<<TextBlock(<< >>), TextBlock(<<Chars("Deployed", 8)>>)>>),
      Blocks(<<ToolUseBlock>>),
      Blocks(<<ThinkingBlock>>),
      Blocks(<< >>),
      Str(<<Chars("A long answer", 700)>>),
      Str(<< >>),
      NoContent }

LineMetas ==
    { [sessionId |-> "s1", gitBranch |-> "main", timestamp |-> "2026-01-01T00:00:00Z"],
      [sessionId |-> NoVal, gitBranch |-> NoVal, timestamp |-> NoVal] }

Uuid(n) == "m" \o ToString(n)

TranscriptFile == Path(<<"", "Users", "me", "repo">>, "s1", ".jsonl")
TranscriptProject == decodeProjectPath(TranscriptFile.dir)
ParseTime == "2026-02-02T00:00:00Z"

ExtractorState == [currentUser |-> currentUser, exchanges |-> exchanges]

\* one iteration of the loop over the file's lines
ReadLine(line) ==
    LET st == ProcessLine(ExtractorState, line, TranscriptFile,
                          TranscriptProject, ParseTime)
    IN  /\ lineNo < MaxLines
        /\ currentUser' = st.currentUser
        /\ exchanges' = st.exchanges
        /\ lineNo' = lineNo + 1
        /\ lastLine' = line
        /\ UNCHANGED <<convVars, memVars, searchVars, callVars, hookVars, sysVars>>

ReadUserLine ==
    \E c \in UserContents, m \in LineMetas :
        ReadLine(Line("user", c, Uuid(lineNo + 1), m.sessionId, m.gitBranch,
                      m.timestamp))

ReadAssistantLine ==
    \E c \in AssistantContents, m \in LineMetas :
        ReadLine(Line("assistant", c, Uuid(lineNo + 1), m.sessionId,
                      m.gitBranch, m.timestamp))

ReadSnapshotLine ==
    ReadLine(Line("file-history-snapshot", NoContent, NoVal, NoVal, NoVal, NoVal))

ReadMalformedLine == ReadLine(MalformedLine)

\* the memory index and the daemon take no part
MemUnused ==
    /\ journal = << >>
    /\ entities = {}
    /\ memStore = {}
    /\ mclock = 0
    /\ memOp = 0
    /\ memBase = 0
    /\ reindexQueue = {}
    /\ timers = {}
    /\ reindexTimer = 0
    /\ sinceLast = 0
    /\ burst = {}
    /\ reindex = [r \in {} |-> 0]

\* no search has been made and the indexes hold nothing to find
NoSearch ==
    [op |-> "none", context |-> NoVal, currentProject |-> NoVal,
     projectOnly |-> FALSE, type |-> NoVal, since |-> << >>,
     limit |-> 0, topK |-> 0, embedCalls |-> 0, results |-> << >>,
     answer |-> "none"]

NoCall == [op |-> "none"]

\* no daemon, no schedule, no pending context
SchedUnused ==
    /\ pidFile = NoCall
    /\ procs = NoCall
    /\ schedules = NoCall
    /\ fired = NoCall
    /\ wallNow = 0

PendUnused ==
    /\ pendingFile = NoCall
    /\ consumer = NoCall
    /\ delivered = NoCall

HandleUnused ==
    /\ stateRoot = NoCall
    /\ handle = NoCall
    /\ indexDisk = NoCall
    /\ callers = NoCall

SysUnused == SchedUnused /\ PendUnused /\ HandleUnused

\* no hook has run
HooksUnused ==
    /\ stateDisk = NoCall
    /\ sessions = NoCall

SearchUnused ==
    /\ convHits = << >>
    /\ memHits = << >>
    /\ search = NoSearch
    /\ input = NoCall
    /\ output = NoCall
    /\ HooksUnused
    /\ SysUnused

InitParse ==
    /\ SearchUnused
    /\ currentUser = NoUser
    /\ exchanges = << >>
    /\ lineNo = 0
    /\ lastLine = MalformedLine
    /\ fs = [f \in {} |-> 0]
    /\ persisted = 0
    /\ convStore = {}
    /\ indexCreated = FALSE
    /\ clock = 0
    /\ pass = [p \in {} |-> 0]
    /\ prevUpdate = 0
    /\ MemUnused

NextParse ==
    \/ ReadUserLine
    \/ ReadAssistantLine
    \/ ReadSnapshotLine
    \/ ReadMalformedLine

SpecParse == InitParse /\ [][NextParse]_vars

-----------------------------------------------------------------------------
(* Properties of the extractor *)

\* the line read by this step
ReadsLine == lineNo' = lineNo + 1

\* the first plain-text block of a content: the string itself, or the text
\* of the first block of type text whose text is not empty
HasPlainText(c) ==
    \/ c.t = "string" /\ c.text # << >>
    \/ c.t = "blocks" /\ \E i \in 1..Len(c.blocks) :
           c.blocks[i].type = "text" /\ c.blocks[i].hasText /\ c.blocks[i].text # << >>

FirstPlainText(c) ==
    IF c.t = "string" THEN c.text
    ELSE LET ok == {i \in 1..Len(c.blocks) :
                      c.blocks[i].type = "text" /\ c.blocks[i].hasText
                      /\ c.blocks[i].text # << >>}
         IN  c.blocks[CHOOSE i \in ok : \A j \in ok : i <= j].text

AssistantWithPending ==
    /\ ReadsLine
    /\ lastLine'.type = "assistant"
    /\ HasContent(lastLine'.content)
    /\ currentUser.set

EmitsOnePairing ==
    /\ Len(exchanges') = Len(exchanges) + 1
    /\ SubSeq(exchanges', 1, Len(exchanges)) = exchanges
    /\ LET e == exchanges'[Len(exchanges')]
       IN  /\ e.userPrompt = SliceTo(currentUser.text, UserPromptMax)
           /\ e.assistantSummary =
                 SliceTo(FirstPlainText(lastLine'.content), AssistantSummaryMax)
           /\ e.id = <<"conv", currentUser.msg.sessionId, currentUser.msg.uuid>>
           /\ e.branch = currentUser.msg.gitBranch

\* C5 as stated: every assistant-role record with content that is processed
\* while a user turn is pending emits exactly one exchange pairing the
\* pending user text with the record's first plain-text block, and clears
\* the pending slot.
C5_EveryAssistantRecordEmits ==
    [][AssistantWithPending => (EmitsOnePairing /\ ~currentUser'.set)]_vars

\* C5 amended: an assistant-role record with content that is processed while
\* a user turn is pending always clears the pending slot; it emits exactly
\* one exchange (pending user text cut to 1000 characters, the record's first
\* non-empty plain-text block cut to 500) when it has such a block, and
\* emits nothing when it has none.
C5_AssistantRecordPairsWhenItHasText ==
    [][AssistantWithPending =>
          /\ ~currentUser'.set
          /\ HasPlainText(lastLine'.content) => EmitsOnePairing
          /\ ~HasPlainText(lastLine'.content) => exchanges' = exchanges]_vars

\* an exchange was just emitted for the user turn of the previous line, and
\* the pending slot is empty again
C5_Witness ==
    /\ lineNo >= 2
    /\ lastLine.type = "assistant"
    /\ HasPlainText(lastLine.content)
    /\ ~currentUser.set
    /\ exchanges # << >>
    /\ exchanges[Len(exchanges)].messageUuid = Uuid(lineNo - 1)
    /\ exchanges[Len(exchanges)].assistantSummary =
          SliceTo(FirstPlainText(lastLine.content), AssistantSummaryMax)

\* the text the user branch looks at, before any unwrapping
RawUserText(c) ==
    IF c.t = "string" THEN c.text
    ELSE LET ok == {i \in 1..Len(c.blocks) :
                      c.blocks[i].type = "text" /\ c.blocks[i].hasText}
         IN  IF ok = {} THEN EmptyText
             ELSE c.blocks[CHOOSE i \in ok : \A j \in ok : i <= j].text

IsEnvelope(text) ==
    StartsWith(text, Marker("# Agent Context", 15)) \/ Includes(text, Marker("\nUser message: ", 15))

\* a user record the extractor is to discard: tool plumbing, noise, or a
\* context envelope with no payload after a "User message:" marker
DiscardedUserRecord(line) ==
    /\ line.type = "user"
    /\ HasContent(line.content)
    /\ \/ isToolResult(line.content)
       \/ LET raw == RawUserText(line.content)
          IN  IF IsEnvelope(raw)
              THEN \/ ~UserMessagePayload(raw).found
                   \/ isNoiseContent(Trim(UserMessagePayload(raw).text))
              ELSE isNoiseContent(raw)

FixTheBug ==
    Line("user", Str(<<Chars("Fix the bug", 11)>>), "m1", "s1", "main",
         "2026-01-01T00:00:00Z")
ToolResultRecord ==
    Line("user", Blocks(<<ToolResultBlock>>), "m2", "s1", "main",
         "2026-01-01T00:00:01Z")
FixedIt ==
    Line("assistant", Str(<<Chars("Fixed it by adding a mutex", 26)>>), "m3",
         "s1", "main", "2026-01-01T00:00:02Z")

PairingScenario ==
    LET out == parseConversationFile(<<FixTheBug, ToolResultRecord, FixedIt>>,
                                     TranscriptFile, TranscriptProject, ParseTime)
    IN  /\ Len(out) = 1
        /\ out[1].userPrompt = <<Chars("Fix the bug", 11)>>
        /\ out[1].assistantSummary = <<Chars("Fixed it by adding a mutex", 26)>>
        /\ out[1].messageUuid = "m1"

\* C6: a discarded user record (tool-invocation/tool-result marker in its
\* block list, noise text, or a context envelope without a "User message:"
\* payload) emits no exchange and leaves the pending user turn as it was;
\* hence [user "Fix the bug", user <tool-result>, assistant "Fixed it by
\* adding a mutex"] yields exactly one exchange pairing the first and last.
C6_DiscardedUserRecordKeepsPending ==
    [][(ReadsLine /\ DiscardedUserRecord(lastLine')) =>
          /\ exchanges' = exchanges
          /\ currentUser' = currentUser
          /\ PairingScenario]_vars

\* a discarded user record was just read while a user turn was pending, and
\* the turn is still pending
C6_Witness ==
    /\ lineNo >= 2
    /\ DiscardedUserRecord(lastLine)
    /\ currentUser.set
    /\ currentUser.msg.uuid = Uuid(lineNo - 1)

-----------------------------------------------------------------------------
(* Conversation index: sources, IndexState, vector store *)

ProjectDir == <<"", "Users", "me", "repo">>
SessionA == Path(ProjectDir, "sessionA", ".jsonl")
SessionB == Path(ProjectDir, "sessionB", ".jsonl")
NoFile == Path(<< >>, "", "")

\* readdirSync order of the project directory
FileOrder == <<SessionA, SessionB>>
Files == {FileOrder[i] : i \in 1..Len(FileOrder)}
Passes == {"p1", "p2"}

\* the contents a transcript file can have; a log grows by appending
Transcript(f, k) ==
    LET first == <<Line("user", Str(<<Chars("Fix the bug", 11)>>), Uuid(1),
                        f.stem, "main", "2026-01-01T00:00:00Z"),
                   Line("assistant", Str(<<Chars("Fixed it by adding a mutex", 26)>>),
                        Uuid(2), f.stem, "main", "2026-01-01T00:00:01Z")>>
        more == <<Line("user", Blocks(<<ToolResultBlock>>), Uuid(3), f.stem,
                       "main", "2026-01-01T00:00:02Z"),
                  Line("user", Blocks(<<TextBlock(<<Chars("Add a unit test for it", 22)>>)>>),
                       Uuid(4), f.stem, NoVal, "2026-01-01T00:00:03Z"),
                  Line("assistant",
                       Blocks(<<ThinkingBlock, TextBlock(<<Chars("Done, tests pass", 16)>>)>>),
                       Uuid(5), f.stem, NoVal, "2026-01-01T00:00:04Z")>>
    IN  CASE k = 1 -> << >>
          [] k = 2 -> first
          [] k = 3 -> first \o more
Contents == {1, 2, 3}

NoEntry == [known |-> FALSE, mtime |-> 0, exchangeIds |-> << >>]
Entry(mtime, ids) == [known |-> TRUE, mtime |-> mtime, exchangeIds |-> ids]
EmptyState == [files |-> [f \in Files |-> NoEntry], lastUpdate |-> 0]

\* loadIndexState: the stored record, or a fresh one when there is none
loadIndexState(per) == IF per.exists THEN per.state ELSE EmptyState

\* saveIndexState
saveIndexState(st) == [exists |-> TRUE, state |-> st]

\* scanConversationFiles: the .jsonl files of the project directory
scanConversationFiles(disk) ==
    LET Present(f) == disk[f].present IN SelectSeq(FileOrder, Present)

RECURSIVE MapIds(_)
MapIds(exs) == IF exs = << >> THEN << >> ELSE <<Head(exs).id>> \o MapIds(Tail(exs))

\* the text embedded for an exchange, and its vector (the embedding is a
\* deterministic function of the text)
EmbedText(e) ==
    [project |-> e.project,
     branch |-> IF Falsy(e.branch) THEN "" ELSE e.branch,
     prompt |-> e.userPrompt]
EmbedVector(text) == [embeddingOf |-> text]

StoreItem(e) ==
    [id |-> e.id,
     vector |-> EmbedVector(EmbedText(e)),
     metadata |-> [e EXCEPT !.branch = OrElse(e.branch, "")]]

\* idx.upsertItem: overwrite on an existing id
upsertItem(store, item) == {x \in store : x.id # item.id} \cup {item}


-----------------------------------------------------------------------------
(* Conversation index: passes *)

IdlePass ==
    [kind |-> "none", pc |-> "idle", state |-> EmptyState, listing |-> << >>,
     currentFiles |-> {}, cur |-> NoFile, curMtime |-> 0, exs |-> << >>,
     i |-> 0, filesUpdated |-> 0, skipped |-> 0, totalExchanges |-> 0,
     parses |-> 0, embedCalls |-> 0, upserts |-> 0, saves |-> 0,
     startPersisted |-> [exists |-> FALSE, state |-> EmptyState],
     alone |-> FALSE, base |-> [valid |-> FALSE, count |-> 0]]

InFlight(p) == pass[p].pc \notin {"idle", "done", "failed"}
OthersIdle(p) == \A q \in Passes \ {p} : ~InFlight(q)

\* a new pass takes the first free slot (slots carry no meaning)
PassOrder == <<"p1", "p2">>
FreeSlot(p) ==
    /\ pass[p].pc = "idle"
    /\ \E i \in 1..Len(PassOrder) :
          /\ PassOrder[i] = p
          /\ \A j \in 1..(i - 1) : pass[PassOrder[j]].pc # "idle"

\* starting pass p: every pass in flight is no longer running alone
Disturb(ps, p) ==
    [q \in Passes |-> IF q = p THEN ps[q] ELSE [ps[q] EXCEPT !.alone = FALSE]]

\* ---- updateConversationIndex ----

\* manage_index(conversations, update): load the state, then await the index
StartUpdate(p) ==
    /\ FreeSlot(p)
    /\ clock < MaxClock
    /\ clock' = clock + 1
    /\ pass' = Disturb([pass EXCEPT ![p] =
                  [IdlePass EXCEPT !.kind = "update", !.pc = "open",
                                   !.state = loadIndexState(persisted),
                                   !.startPersisted = persisted,
                                   !.alone = OthersIdle(p),
                                   !.base = IF OthersIdle(p) THEN prevUpdate
                                            ELSE [valid |-> FALSE, count |-> 0]]], p)
    /\ prevUpdate' = IF OthersIdle(p) THEN prevUpdate
                     ELSE [valid |-> FALSE, count |-> 0]
    /\ UNCHANGED <<fs, persisted, convStore, indexCreated>>
    /\ UNCHANGED <<parseVars, memVars, searchVars, callVars, hookVars, sysVars>>

\* getConversationIndex resolves (creating the index when there is none):
\* an update starts its scan, a rebuild starts its upserts
OpenIndex(p) ==
    /\ pass[p].pc = "open"
    /\ indexCreated' = TRUE
    /\ pass' = [pass EXCEPT ![p] =
                  IF pass[p].kind = "update"
                  THEN [@ EXCEPT !.pc = "scan",
                                 !.listing = scanConversationFiles(fs)]
                  ELSE [@ EXCEPT !.pc = "upsert", !.i = 1]]
    /\ UNCHANGED <<fs, persisted, convStore, clock, prevUpdate>>
    /\ UNCHANGED <<parseVars, memVars, searchVars, callVars, hookVars, sysVars>>

\* the vector store fails while the index is opened or created
OpenIndexFails(p) ==
    /\ pass[p].pc = "open"
    /\ pass' = [pass EXCEPT ![p].pc = "failed"]
    /\ UNCHANGED <<fs, persisted, convStore, indexCreated, clock, prevUpdate>>
    /\ UNCHANGED <<parseVars, memVars, searchVars, callVars, hookVars, sysVars>>

\* the fingerprint test written as "stored mtime is newer"
UnchangedOnlyWhenNewer(cached, mtime) == cached.known /\ cached.mtime > mtime

\* if (cached && cached.mtime === mtime)
Unchanged(cached, mtime) == cached.known /\ cached.mtime = mtime

ScanHead(p) == Head(pass[p].listing)

\* the loop reaches a file whose fingerprint is the stored one: skip it
ScanSkip(p) ==
    /\ pass[p].pc = "scan"
    /\ pass[p].listing # << >>
    /\ LET f == ScanHead(p)
           cached == pass[p].state.files[f]
       IN  /\ fs[f].present
           /\ Unchanged(cached, fs[f].mtime)
           /\ pass' = [pass EXCEPT ![p] =
                 [@ EXCEPT !.listing = Tail(@),
                           !.currentFiles = @ \cup {f},
                           !.skipped = @ + 1,
                           !.totalExchanges = @ + Len(cached.exchangeIds)]]
    /\ UNCHANGED <<fs, persisted, convStore, indexCreated, clock, prevUpdate>>
    /\ UNCHANGED <<parseVars, memVars, searchVars, callVars, hookVars, sysVars>>

\* the loop reaches a new or modified file: parse it; with no exchange the
\* file is recorded at once, otherwise embedBatch is awaited
ScanParse(p) ==
    /\ pass[p].pc = "scan"
    /\ pass[p].listing # << >>
    /\ LET f == ScanHead(p)
           cached == pass[p].state.files[f]
           found == parseConversationFile(Transcript(f, fs[f].content), f,
                                          decodeProjectPath(f.dir), clock)
       IN  /\ fs[f].present
           /\ ~Unchanged(cached, fs[f].mtime)
           /\ pass' = [pass EXCEPT ![p] =
                 IF found = << >>
                 THEN [@ EXCEPT !.listing = Tail(@),
                                !.currentFiles = @ \cup {f},
                                !.parses = @ + 1,
                                !.state.files[f] = Entry(fs[f].mtime, << >>),
                                !.filesUpdated = @ + 1]
                 ELSE [@ EXCEPT !.listing = Tail(@),
                                !.currentFiles = @ \cup {f},
                                !.parses = @ + 1,
                                !.cur = f, !.curMtime = fs[f].mtime,
                                !.exs = found, !.pc = "embed"]]
    /\ UNCHANGED <<fs, persisted, convStore, indexCreated, clock, prevUpdate>>
    /\ UNCHANGED <<parseVars, memVars, searchVars, callVars, hookVars, sysVars>>

\* statSync throws on a file that vanished after the directory was listed
ScanVanished(p) ==
    /\ pass[p].pc = "scan"
    /\ pass[p].listing # << >>
    /\ ~fs[ScanHead(p)].present
    /\ pass' = [pass EXCEPT ![p].pc = "failed"]
    /\ UNCHANGED <<fs, persisted, convStore, indexCreated, clock, prevUpdate>>
    /\ UNCHANGED <<parseVars, memVars, searchVars, callVars, hookVars, sysVars>>

\* embedBatch resolves: an update goes on to its upserts, a rebuild opens
\* the index first
Embed(p) ==
    /\ pass[p].pc = "embed"
    /\ pass' = [pass EXCEPT ![p] =
                  IF pass[p].kind = "update"
                  THEN [@ EXCEPT !.embedCalls = @ + 1, !.pc = "upsert", !.i = 1]
                  ELSE [@ EXCEPT !.embedCalls = @ + 1, !.pc = "open"]]
    /\ UNCHANGED <<fs, persisted, convStore, indexCreated, clock, prevUpdate>>
    /\ UNCHANGED <<parseVars, memVars, searchVars, callVars, hookVars, sysVars>>

\* embedBatch rejects: the pass ends with the error
EmbedFails(p) ==
    /\ pass[p].pc = "embed"
    /\ pass' = [pass EXCEPT ![p] = [@ EXCEPT !.embedCalls = @ + 1, !.pc = "failed"]]
    /\ UNCHANGED <<fs, persisted, convStore, indexCreated, clock, prevUpdate>>
    /\ UNCHANGED <<parseVars, memVars, searchVars, callVars, hookVars, sysVars>>

\* RecordFile keeping the mtime of the entry it replaces
RecordFileKeepsOldMtime(ps) ==
    [ps EXCEPT !.state.files[ps.cur] =
                   Entry(ps.state.files[ps.cur].mtime, MapIds(ps.exs)),
               !.filesUpdated = @ + 1,
               !.totalExchanges = @ + Len(ps.exs),
               !.pc = "scan", !.cur = NoFile, !.curMtime = 0,
               !.exs = << >>, !.i = 0]

\* RecordFile leaving the file's exchanges out of the running total
RecordFileSkipsCount(ps) ==
    [ps EXCEPT !.state.files[ps.cur] = Entry(ps.curMtime, MapIds(ps.exs)),
               !.filesUpdated = @ + 1,
               !.pc = "scan", !.cur = NoFile, !.curMtime = 0,
               !.exs = << >>, !.i = 0]

\* what an update records for the file once its last upsert resolved
RecordFile(ps) ==
    [ps EXCEPT !.state.files[ps.cur] = Entry(ps.curMtime, MapIds(ps.exs)),
               !.filesUpdated = @ + 1,
               !.totalExchanges = @ + Len(ps.exs),
               !.pc = "scan", !.cur = NoFile, !.curMtime = 0,
               !.exs = << >>, !.i = 0]

\* one idx.upsertItem resolves; after the last one an update records the
\* file and returns to its scan, a rebuild saves its new state and returns
Upsert(p) ==
    /\ pass[p].pc = "upsert"
    /\ LET ps == pass[p]
           stepped == [ps EXCEPT !.upserts = @ + 1, !.i = @ + 1]
           last == ps.i = Len(ps.exs)
       IN  /\ convStore' = upsertItem(convStore, StoreItem(ps.exs[ps.i]))
           /\ pass' = [pass EXCEPT ![p] =
                 IF ~last THEN stepped
                 ELSE IF ps.kind = "update" THEN RecordFile(stepped)
                 ELSE [stepped EXCEPT !.pc = "done", !.saves = @ + 1,
                                      !.totalExchanges = Len(ps.exs)]]
           /\ persisted' = IF last /\ ps.kind = "rebuild"
                           THEN saveIndexState(ps.state) ELSE persisted
           /\ prevUpdate' = IF last /\ ps.kind = "rebuild"
                            THEN [valid |-> FALSE, count |-> 0] ELSE prevUpdate
    /\ UNCHANGED <<fs, indexCreated, clock>>
    /\ UNCHANGED <<parseVars, memVars, searchVars, callVars, hookVars, sysVars>>

\* UpsertFails with the working state saved on the way out (a save placed
\* in a finally block)
UpsertFailsSavesState(p) ==
    /\ pass[p].pc = "upsert"
    /\ pass' = [pass EXCEPT ![p] = [@ EXCEPT !.pc = "failed", !.saves = @ + 1]]
    /\ persisted' = saveIndexState(pass[p].state)
    /\ UNCHANGED <<fs, convStore, indexCreated, clock, prevUpdate>>
    /\ UNCHANGED <<parseVars, memVars, searchVars, callVars, hookVars, sysVars>>

\* idx.upsertItem rejects: the pass ends with the error
UpsertFails(p) ==
    /\ pass[p].pc = "upsert"
    /\ pass' = [pass EXCEPT ![p].pc = "failed"]
    /\ UNCHANGED <<fs, persisted, convStore, indexCreated, clock, prevUpdate>>
    /\ UNCHANGED <<parseVars, memVars, searchVars, callVars, hookVars, sysVars>>

\* PruneState without the loop that deletes the entries of files not seen
PruneStateKeepsAll(st, seen, now) == [st EXCEPT !.lastUpdate = now]

\* the state an update saves: entries of files not seen are deleted
PruneState(st, seen, now) ==
    [files |-> [f \in Files |-> IF f \in seen THEN st.files[f] ELSE NoEntry],
     lastUpdate |-> now]

\* the loop is over: prune, stamp and save the state, return the counts
FinishUpdate(p) ==
    /\ pass[p].pc = "scan"
    /\ pass[p].listing = << >>
    /\ LET st == PruneState(pass[p].state, pass[p].currentFiles, clock)
       IN  /\ persisted' = saveIndexState(st)
           /\ pass' = [pass EXCEPT ![p] =
                         [@ EXCEPT !.state = st, !.pc = "done", !.saves = @ + 1]]
    /\ prevUpdate' = [valid |-> pass[p].alone, count |-> pass[p].totalExchanges]
    /\ UNCHANGED <<fs, convStore, indexCreated, clock>>
    /\ UNCHANGED <<parseVars, memVars, searchVars, callVars, hookVars, sysVars>>

\* ---- rebuildConversationIndex ----

\* the rebuild's first loop: parse every file into allExchanges / newState
RECURSIVE RebuildScan(_, _, _, _)
RebuildScan(listing, disk, now, acc) ==
    IF listing = << >> THEN acc
    ELSE LET f == Head(listing)
             found == parseConversationFile(Transcript(f, disk[f].content), f,
                                            decodeProjectPath(f.dir), now)
         IN  RebuildScan(Tail(listing), disk, now,
                 [acc EXCEPT !.exs = @ \o found,
                             !.parses = @ + 1,
                             !.state.files[f] = Entry(disk[f].mtime, MapIds(found))])

\* StartRebuild saving the new state before the embeddings and upserts
StartRebuildSavesEarly(p) ==
    /\ FreeSlot(p)
    /\ clock < MaxClock
    /\ clock' = clock + 1
    /\ LET fresh == [IdlePass EXCEPT !.kind = "rebuild",
                                     !.state.lastUpdate = clock,
                                     !.startPersisted = persisted,
                                     !.alone = OthersIdle(p)]
           scanned == RebuildScan(scanConversationFiles(fs), fs, clock, fresh)
           empty == scanned.exs = << >>
       IN  /\ pass' = Disturb([pass EXCEPT ![p] =
                        IF empty
                        THEN [scanned EXCEPT !.pc = "done", !.saves = @ + 1]
                        ELSE [scanned EXCEPT !.pc = "embed"]], p)
           /\ persisted' = saveIndexState(scanned.state)
    /\ prevUpdate' = [valid |-> FALSE, count |-> 0]
    /\ UNCHANGED <<fs, convStore, indexCreated>>
    /\ UNCHANGED <<parseVars, memVars, searchVars, callVars, hookVars, sysVars>>

\* manage_index(conversations, rebuild): scan and parse everything; with no
\* exchange the new state is saved at once, otherwise embedBatch is awaited
StartRebuild(p) ==
    /\ FreeSlot(p)
    /\ clock < MaxClock
    /\ clock' = clock + 1
    /\ LET fresh == [IdlePass EXCEPT !.kind = "rebuild",
                                     !.state.lastUpdate = clock,
                                     !.startPersisted = persisted,
                                     !.alone = OthersIdle(p)]
           scanned == RebuildScan(scanConversationFiles(fs), fs, clock, fresh)
           empty == scanned.exs = << >>
       IN  /\ pass' = Disturb([pass EXCEPT ![p] =
                        IF empty
                        THEN [scanned EXCEPT !.pc = "done", !.saves = @ + 1]
                        ELSE [scanned EXCEPT !.pc = "embed"]], p)
           /\ persisted' = IF empty THEN saveIndexState(scanned.state)
                           ELSE persisted
    /\ prevUpdate' = [valid |-> FALSE, count |-> 0]
    /\ UNCHANGED <<fs, convStore, indexCreated>>
    /\ UNCHANGED <<parseVars, memVars, searchVars, callVars, hookVars, sysVars>>

\* the promise settles and the caller's then/catch logs the outcome
Return(p) ==
    /\ pass[p].pc \in {"done", "failed"}
    /\ pass' = [pass EXCEPT ![p] = IdlePass]
    /\ prevUpdate' = IF pass[p].pc = "failed"
                     THEN [valid |-> FALSE, count |-> 0] ELSE prevUpdate
    /\ UNCHANGED <<fs, persisted, convStore, indexCreated, clock>>
    /\ UNCHANGED <<parseVars, memVars, searchVars, callVars, hookVars, sysVars>>

-----------------------------------------------------------------------------
(* Conversation index: the transcript directory changes under the index *)

SourceChanged ==
    /\ pass' = [q \in Passes |-> [pass[q] EXCEPT !.alone = FALSE]]
    /\ prevUpdate' = [valid |-> FALSE, count |-> 0]

\* modification times grow with every write to the directory
LatestMtime == CHOOSE m \in 0..MaxMtime :
                  /\ \A f \in Files : fs[f].mtime <= m
                  /\ \E f \in Files : fs[f].mtime = m

\* a session log is created or appended to (or touched)
WriteTranscript(f, k) ==
    /\ LatestMtime < MaxMtime
    /\ fs[f].present => k >= fs[f].content
    /\ fs' = [fs EXCEPT ![f] = [present |-> TRUE, mtime |-> LatestMtime + 1,
                                content |-> k]]
    /\ SourceChanged
    /\ UNCHANGED <<persisted, convStore, indexCreated, clock>>
    /\ UNCHANGED <<parseVars, memVars, searchVars, callVars, hookVars, sysVars>>

\* a session log is removed
DeleteTranscript(f) ==
    /\ fs[f].present
    /\ fs' = [fs EXCEPT ![f] = [present |-> FALSE, mtime |-> fs[f].mtime,
                                content |-> 1]]
    /\ SourceChanged
    /\ UNCHANGED <<persisted, convStore, indexCreated, clock>>
    /\ UNCHANGED <<parseVars, memVars, searchVars, callVars, hookVars, sysVars>>

ConvIdle ==
    /\ fs = [f \in Files |-> [present |-> FALSE, mtime |-> 0, content |-> 1]]
    /\ persisted = [exists |-> FALSE, state |-> EmptyState]
    /\ convStore = {}
    /\ indexCreated = FALSE
    /\ clock = 0
    /\ pass = [p \in Passes |-> IdlePass]
    /\ prevUpdate = [valid |-> FALSE, count |-> 0]

ParseIdle ==
    /\ currentUser = NoUser
    /\ exchanges = << >>
    /\ lineNo = 0
    /\ lastLine = MalformedLine

InitConv == ConvIdle /\ ParseIdle /\ MemUnused /\ SearchUnused

\* a pass, step by step
PassStep(p) ==
    \/ StartUpdate(p)
    \/ StartRebuild(p)
    \/ OpenIndex(p)
    \/ OpenIndexFails(p)
    \/ ScanSkip(p)
    \/ ScanParse(p)
    \/ ScanVanished(p)
    \/ Embed(p)
    \/ EmbedFails(p)
    \/ Upsert(p)
    \/ UpsertFails(p)
    \/ FinishUpdate(p)
    \/ Return(p)

SourceStep ==
    \/ \E f \in Files, k \in Contents : WriteTranscript(f, k)
    \/ \E f \in Files : DeleteTranscript(f)

\* manage_index calls issued one after the other: the next pass is started
\* once the previous one has settled
NextConv ==
    \/ PassStep(PassOrder[1])
    \/ SourceStep

SpecConv == InitConv /\ [][NextConv]_vars

\* manage_index starts its pass in the background and returns at once, so a
\* second call can start a pass while the first is still awaiting
NextConc ==
    \/ \E p \in Passes : PassStep(p)
    \/ SourceStep

SpecConc == InitConv /\ [][NextConc]_vars

-----------------------------------------------------------------------------
(* Properties of the conversation index *)

\* pass p, an update, moves past the file at the head of its listing, and
\* that file's modification time is the one in the pass's IndexState
SkipsUnchangedFile(p) ==
    /\ pass[p].kind = "update"
    /\ pass[p].pc = "scan"
    /\ pass[p].listing # << >>
    /\ pass'[p].listing = Tail(pass[p].listing)
    /\ fs[ScanHead(p)].present
    /\ pass[p].state.files[ScanHead(p)].known
    /\ pass[p].state.files[ScanHead(p)].mtime = fs[ScanHead(p)].mtime

C2_SecondUpdateIsNoOp ==
    \A p \in Passes :
        (/\ pass[p].kind = "update"
         /\ pass[p].pc = "done"
         /\ pass[p].alone
         /\ pass[p].base.valid)
        => /\ pass[p].totalExchanges = pass[p].base.count
           /\ pass[p].embedCalls = 0
           /\ pass[p].filesUpdated = 0
           /\ pass[p].parses = 0
           /\ pass[p].upserts = 0

\* the second of two such updates has finished, over a non-empty index
C2_Witness ==
    \E p \in Passes :
        /\ pass[p].kind = "update"
        /\ pass[p].pc = "done"
        /\ pass[p].alone
        /\ pass[p].base.valid
        /\ pass[p].totalExchanges >= 1
        /\ pass[p].skipped >= 1

\* C3: a pass that ends in a failure of the Embedding Gateway or the Vector
\* Store has written nothing to the persisted IndexState: the record is
\* what it was when the pass started (no other pass having run meanwhile).
C3_FailedPassLeavesIndexState ==
    \A p \in Passes :
        pass[p].pc = "failed"
        => /\ pass[p].saves = 0
           /\ pass[p].alone => persisted = pass[p].startPersisted

\* a pass failed after some of its upserts had succeeded, and an earlier
\* IndexState record is on disk
C3_Witness ==
    \E p \in Passes :
        /\ pass[p].pc = "failed"
        /\ pass[p].alone
        /\ pass[p].upserts >= 1
        /\ persisted.exists
        /\ persisted = pass[p].startPersisted

\* C4: at most one index-build pass is executing at any time.
C4_AtMostOnePassRuns == Cardinality({p \in Passes : InFlight(p)}) <= 1

\* the exchange ids the discoverable sources yield now
DerivedIds(f) ==
    LET found == parseConversationFile(Transcript(f, fs[f].content), f,
                                       decodeProjectPath(f.dir), clock)
    IN  {found[i].id : i \in 1..Len(found)}

\* C10: after a successful rebuild() (nothing else having run or changed
\* meanwhile) every source was reparsed, IndexState lists exactly the
\* discoverable sources with their current fingerprint and ids, and every
\* item of the Vector Store is derived from a discoverable source.
C10_RebuildDependsOnSourcesOnly ==
    \A p \in Passes :
        (pass[p].kind = "rebuild" /\ pass[p].pc = "done" /\ pass[p].alone)
        => /\ pass[p].parses = Cardinality({f \in Files : fs[f].present})
           /\ \A f \in Files :
                 /\ persisted.state.files[f].known = fs[f].present
                 /\ fs[f].present =>
                       persisted.state.files[f].mtime = fs[f].mtime
           /\ \A x \in convStore :
                 /\ fs[x.metadata.sessionPath].present
                 /\ x.id \in DerivedIds(x.metadata.sessionPath)

-----------------------------------------------------------------------------
(* Memory index: journal partitions and entity documents *)

MaxJournal == 3

EntitiesDir == <<"", "home", "me", ".config", "macrodata", "entities">>
EntityPath(subdir, segs) == [dir |-> Append(EntitiesDir, subdir), segs |-> segs]
AliceFile == EntityPath("people", <<"alice", ".md">>)
MacroFile == EntityPath("projects", <<"macrodata", ".md">>)

\* readdirSync order of entities/people and entities/projects
EntityOrder == <<AliceFile, MacroFile>>
EntityFiles == {EntityOrder[i] : i \in 1..Len(EntityOrder)}

RECURSIVE Join(_)
Join(segs) == IF segs = << >> THEN "" ELSE Head(segs) \o Join(Tail(segs))

\* basename(filePath)
Basename(p) == Join(p.segs)

\* basename(filePath, ".md"): a trailing ".md" is dropped
BasenameNoMd(p) ==
    IF p.segs # << >> /\ p.segs[Len(p.segs)] = ".md" /\ Len(p.segs) > 1
    THEN Join(SubSeq(p.segs, 1, Len(p.segs) - 1))
    ELSE Join(p.segs)

\* file.replace(".md", ""): the first occurrence is dropped
RECURSIVE ReplaceMd(_)
ReplaceMd(segs) ==
    IF segs = << >> THEN << >>
    ELSE IF Head(segs) = ".md" THEN Tail(segs)
    ELSE <<Head(segs)>> \o ReplaceMd(Tail(segs))

\* f.endsWith(".md")
EndsWithMd(p) == p.segs # << >> /\ p.segs[Len(p.segs)] = ".md"

\* filePath.includes("/people/")
PathIncludesDir(p, name) == \E i \in 2..Len(p.dir) : p.dir[i] = name

\* a document is its lines; h marks a line that starts with "## "
HeadingLine(title) == [h |-> TRUE, text |-> title]
TextLine(text) == [h |-> FALSE, text |-> text]
BlankLine == TextLine("")

\* the documents on disk
EntityDoc(f) ==
    IF f = AliceFile
    THEN <<TextLine("# Alice"), BlankLine,
           HeadingLine("Notes"), BlankLine,
           HeadingLine("Contact"), TextLine("alice@example.com")>>
    ELSE <<HeadingLine("Goals"), BlankLine, TextLine("Ship the index")>>

\* the date part and the full form of new Date().toISOString(); every
\* instant of the model falls on one day
IsoDate(t) == "2026-01-01"
IsoTime(t) == IsoDate(t) \o "T00:00:00.00" \o ToString(t) \o "Z"

\* getTodayJournalPath: the partition of the day
JournalFile(t) == IsoDate(t) \o ".jsonl"

JournalEntry(t, topic, content) ==
    [timestamp |-> IsoTime(t), topic |-> topic, content |-> content]

-----------------------------------------------------------------------------
(* Memory index: readers *)

MemoryItem(id, type, content, source, section, timestamp) ==
    [id |-> id, type |-> type, content |-> content, source |-> source,
     section |-> section, timestamp |-> timestamp]

\* `[${entry.topic}] ${entry.content}`
EntryText(entry) == <<"[" \o entry.topic \o "] " \o entry.content>>

\* parseJournalForIndexing: one item per line of the partition, its id made
\* of the file name and the line's position
parseJournalForIndexing(file, lines) ==
    [i \in 1..Len(lines) |->
        MemoryItem("journal-" \o file \o "-" \o ToString(i - 1), "journal",
                   EntryText(lines[i]), file, NoVal, lines[i].timestamp)]

\* text.trim() on a run of lines: blank lines at both ends are dropped
TrimLines(lines) ==
    LET full == {i \in 1..Len(lines) : lines[i].text # ""}
        last == IF full = {} THEN 0 ELSE CHOOSE i \in full : \A j \in full : j <= i
    IN  IF full = {} THEN << >>
        ELSE [i \in 1..(last - FirstIndex(full) + 1) |->
                 lines[FirstIndex(full) + i - 1].text]

\* content.split(/^## /m): sections[0] and the heading lines that open the others
HeadingIndexes(doc) == {i \in 1..Len(doc) : doc[i].h}
PreambleLines(doc) ==
    IF HeadingIndexes(doc) = {} THEN doc
    ELSE SubSeq(doc, 1, FirstIndex(HeadingIndexes(doc)) - 1)
NthHeading(doc, n) ==
    CHOOSE i \in HeadingIndexes(doc) :
        Cardinality({j \in HeadingIndexes(doc) : j <= i}) = n
\* SectionBody running to the end of the document instead of the next
\* heading
SectionBodyToEnd(doc, n) == SubSeq(doc, NthHeading(doc, n) + 1, Len(doc))

SectionBody(doc, n) ==
    LET from == NthHeading(doc, n)
        next == FirstIndex({j \in HeadingIndexes(doc) : j > from})
    IN  SubSeq(doc, from + 1, IF next = 0 THEN Len(doc) ELSE next - 1)

\* the items of one entity document: the preamble and every section with
\* content, the id made of type, file name and the section's position
SectionItems(type, filename, source, doc) ==
    LET pre == TrimLines(PreambleLines(doc))
        Section(n) ==
            LET title == doc[NthHeading(doc, n)].text
                body == TrimLines(SectionBody(doc, n))
            IN  IF body = << >> THEN << >>
                ELSE <<MemoryItem(type \o "-" \o filename \o "-" \o ToString(n),
                                  type, <<"## " \o title, "">> \o body,
                                  source, title, NoVal)>>
        Sections[n \in 0..Cardinality(HeadingIndexes(doc))] ==
            IF n = 0 THEN << >> ELSE Sections[n - 1] \o Section(n)
    IN  (IF pre = << >> THEN << >>
         ELSE <<MemoryItem(type \o "-" \o filename \o "-preamble", type, pre,
                           source, "preamble", NoVal)>>)
        \o Sections[Cardinality(HeadingIndexes(doc))]

\* parseEntitiesForIndexing(subdir, type)
RECURSIVE EntityItems(_, _, _, _)
EntityItems(files, present, subdir, type) ==
    IF files = << >> THEN << >>
    ELSE LET f == Head(files)
             mine == /\ f \in present
                     /\ f.dir = Append(EntitiesDir, subdir)
                     /\ EndsWithMd(f)
         IN  (IF mine
              THEN SectionItems(type, Join(ReplaceMd(f.segs)),
                                subdir \o "/" \o Basename(f), EntityDoc(f))
              ELSE << >>)
             \o EntityItems(Tail(files), present, subdir, type)

parseEntitiesForIndexing(present, subdir, type) ==
    EntityItems(EntityOrder, present, subdir, type)

\* rebuildIndex: allItems
AllItems(jr, present) ==
    (IF jr = << >> THEN << >>
     ELSE parseJournalForIndexing(JournalFile(0), jr))
    \o parseEntitiesForIndexing(present, "people", "person")
    \o parseEntitiesForIndexing(present, "projects", "project")

\* indexEntityFile: the items it derives, none for a path outside people/
\* and projects/ or a file that cannot be read
EntityFileItems(p, present) ==
    LET type == IF PathIncludesDir(p, "people") THEN "person"
                ELSE IF PathIncludesDir(p, "projects") THEN "project"
                ELSE NoVal
        subdir == IF type = "person" THEN "people" ELSE "projects"
    IN  IF type = NoVal \/ p \notin present THEN << >>
        ELSE SectionItems(type, BasenameNoMd(p),
                          subdir \o "/" \o Basename(p), EntityDoc(p))

\* indexJournalEntry: the item of a new entry, its id made of the timestamp
JournalEntryItem(entry) ==
    MemoryItem("journal-" \o entry.timestamp, "journal", EntryText(entry),
               "journal", NoVal, entry.timestamp)

\* the stored form of an item (section and timestamp only when set)
MemStoreItem(item) ==
    [id |-> item.id,
     vector |-> EmbedVector(item.content),
     metadata |-> [type |-> item.type, content |-> item.content,
                   source |-> item.source,
                   section |-> OrElse(item.section, NoVal),
                   timestamp |-> OrElse(item.timestamp, NoVal)]]

\* the upserts of indexItems, the first k of them resolved
RECURSIVE UpsertFirst(_, _, _)
UpsertFirst(store, items, k) ==
    IF k = 0 \/ items = << >> THEN store
    ELSE UpsertFirst(upsertItem(store, MemStoreItem(Head(items))), Tail(items), k - 1)

-----------------------------------------------------------------------------
(* Memory index: log_journal and manage_index(memory, ...) *)

\* memBase: whether a pass has resolved with no source changed since, what
\* it reported, and whether the pass before it had resolved the same way
\* (then with what report)
NoBase == [valid |-> FALSE, count |-> 0, second |-> FALSE, before |-> 0]
NoMemOp ==
    [kind |-> "none", ok |-> FALSE, itemCount |-> 0, embedCalls |-> 0,
     embedded |-> 0]

\* log_journal: append the entry to today's partition, then index it; a
\* failure of the indexing is logged and the entry stays. Every call reads
\* a later millisecond off the clock.
LogJournal(indexed) ==
    /\ Len(journal) < MaxJournal
    /\ LET t == mclock + 1
           entry == JournalEntry(t, "work", "note " \o ToString(Len(journal) + 1))
       IN  /\ journal' = Append(journal, entry)
           /\ mclock' = t
           /\ memStore' = IF indexed
                          THEN upsertItem(memStore, MemStoreItem(JournalEntryItem(entry)))
                          ELSE memStore
    /\ memBase' = NoBase
    /\ UNCHANGED <<entities, memOp, reindexQueue, timers, reindexTimer,
                   sinceLast, burst, reindex>>
    /\ UNCHANGED <<parseVars, convVars, searchVars, callVars, hookVars, sysVars>>

\* the count taken from the store, as getIndexStats takes it
ItemCountFromStore(items, store) == Cardinality(store)

\* what a rebuildIndex call reports when it resolves
ItemCount(items, store) == Len(items)

\* whether indexItems sends a batch to the Embedding Gateway
EmbedsBatch(items, store) == items # << >>

\* manage_index(memory, rebuild | update): both run rebuildIndex. The call
\* fails when getIndex, embedBatch or the upsert after the first k rejects.
ManageIndexMemory(action, fail, k) ==
    /\ fail # "upsert" => k = 0
    /\ \E items \in {AllItems(journal, entities)} :
       LET n == Len(items)
           ok == fail = "none"
           calls == IF EmbedsBatch(items, memStore) /\ fail # "open" THEN 1 ELSE 0
       IN
        /\ fail # "none" => n > 0
        /\ fail = "upsert" => k < n
        /\ memStore' = IF calls = 0 THEN memStore
                       ELSE UpsertFirst(memStore, items, IF ok THEN n ELSE k)
        /\ memOp' = [kind |-> action, ok |-> ok,
                     itemCount |-> IF ok THEN ItemCount(items, memStore') ELSE 0,
                     embedCalls |-> calls,
                     embedded |-> IF calls = 0 THEN 0 ELSE n]
        /\ memBase' = IF ok
                      THEN [valid |-> TRUE, count |-> memOp'.itemCount,
                            second |-> memBase.valid, before |-> memBase.count]
                      ELSE NoBase
        /\ UNCHANGED <<journal, entities, mclock, reindexQueue, timers,
                       reindexTimer, sinceLast, burst, reindex>>
        /\ UNCHANGED <<parseVars, convVars, searchVars, callVars, hookVars, sysVars>>

\* manage_index(memory, stats): getIndexStats
ManageIndexStats ==
    /\ memOp' = [kind |-> "stats", ok |-> TRUE,
                 itemCount |-> Cardinality(memStore), embedCalls |-> 0,
                 embedded |-> 0]
    /\ UNCHANGED <<journal, entities, memStore, mclock, memBase, reindexQueue,
                   timers, reindexTimer, sinceLast, burst, reindex>>
    /\ UNCHANGED <<parseVars, convVars, searchVars, callVars, hookVars, sysVars>>

-----------------------------------------------------------------------------
(* Daemon: the entity watcher and its debounced reindex *)

MaxEvents == 3
DebounceMs == 1000
TickMs == {400, 600}

ReindexOrder == <<"r1", "r2">>
ReindexSlots == {ReindexOrder[i] : i \in 1..Len(ReindexOrder)}
\* errors: the paths indexEntityFile's own catch has logged; rejected: the
\* paths whose call rejected into the catch of processReindexQueue
IdleReindex ==
    [pc |-> "idle", paths |-> << >>, snapshot |-> {}, calls |-> << >>,
     errors |-> {}, rejected |-> {}]

\* a processReindexQueue call takes the first slot that holds no running call
FreeReindexSlot(r) ==
    /\ reindex[r].pc # "run"
    /\ \E i \in 1..Len(ReindexOrder) :
          /\ ReindexOrder[i] = r
          /\ \A j \in 1..(i - 1) : reindex[ReindexOrder[j]].pc = "run"

\* Set.add: insertion order, no duplicate
SetAdd(q, x) == IF \E i \in 1..Len(q) : q[i] = x THEN q ELSE Append(q, x)

Elements(q) == {q[i] : i \in 1..Len(q)}

\* setTimeout without the clearTimeout before it
ArmTimerWithoutClear(ts, cur, id) == ts \cup {[id |-> id, age |-> 0]}

\* clearTimeout(this.reindexTimer), then setTimeout(..., 1000)
ArmTimer(ts, cur, id) ==
    {t \in ts : t.id # cur} \cup {[id |-> id, age |-> 0]}

\* an entity document is written (created or touched) or removed
EditEntity(f, kind) ==
    /\ kind = "unlink" => f \in entities
    /\ entities' = IF kind = "unlink" THEN entities \ {f} ELSE entities \cup {f}
    /\ memBase' = NoBase

\* an entity document is edited while no daemon watches
EditUnwatched(f, kind) ==
    /\ EditEntity(f, kind)
    /\ entities' # entities
    /\ UNCHANGED <<journal, memStore, mclock, memOp, reindexQueue, timers,
                   reindexTimer, sinceLast, burst, reindex>>
    /\ UNCHANGED <<parseVars, convVars, searchVars, callVars, hookVars, sysVars>>

\* the watcher reports the edit of an entity document: queueReindex(path)
WatcherEvent(f, kind) ==
    /\ reindexTimer < MaxEvents
    /\ EditEntity(f, kind)
    /\ reindexQueue' = SetAdd(reindexQueue, f)
    /\ timers' = ArmTimer(timers, reindexTimer, reindexTimer + 1)
    /\ reindexTimer' = reindexTimer + 1
    /\ sinceLast' = 0
    /\ burst' = burst \cup {f}
    /\ UNCHANGED <<journal, memStore, mclock, memOp, reindex>>
    /\ UNCHANGED <<parseVars, convVars, searchVars, callVars, hookVars, sysVars>>

Aged(ms, d) == IF ms + d >= DebounceMs THEN DebounceMs ELSE ms + d

\* time passes
Tick(d) ==
    /\ sinceLast < DebounceMs \/ \E t \in timers : t.age < DebounceMs
    /\ timers' = {[t EXCEPT !.age = Aged(@, d)] : t \in timers}
    /\ sinceLast' = Aged(sinceLast, d)
    /\ UNCHANGED <<journal, entities, memStore, mclock, memOp, memBase,
                   reindexQueue, reindexTimer, burst, reindex>>
    /\ UNCHANGED <<parseVars, convVars, searchVars, callVars, hookVars, sysVars>>

\* processReindexQueue returning at once while an earlier call still runs
TimerFiresGuarded(t, r) ==
    /\ t \in timers
    /\ t.age >= DebounceMs
    /\ timers' = timers \ {t}
    /\ IF reindexQueue = << >> \/ \E q \in ReindexSlots : reindex[q].pc = "run"
       THEN UNCHANGED <<reindexQueue, burst, reindex>>
       ELSE /\ FreeReindexSlot(r)
            /\ reindex' = [reindex EXCEPT ![r] =
                             [pc |-> "run", paths |-> reindexQueue,
                              snapshot |-> Elements(reindexQueue),
                              calls |-> << >>,
                              errors |-> {}, rejected |-> {}]]
            /\ reindexQueue' = << >>
            /\ burst' = {}
    /\ UNCHANGED <<journal, entities, memStore, mclock, memOp, memBase,
                   reindexTimer, sinceLast>>
    /\ UNCHANGED <<parseVars, convVars, searchVars, callVars, hookVars, sysVars>>

\* a timeout is due: processReindexQueue takes the queue and clears it
TimerFires(t, r) ==
    /\ t \in timers
    /\ t.age >= DebounceMs
    /\ timers' = timers \ {t}
    /\ IF reindexQueue = << >>
       THEN UNCHANGED <<reindexQueue, burst, reindex>>
       ELSE /\ FreeReindexSlot(r)
            /\ reindex' = [reindex EXCEPT ![r] =
                             [pc |-> "run", paths |-> reindexQueue,
                              snapshot |-> Elements(reindexQueue),
                              calls |-> << >>,
                              errors |-> {}, rejected |-> {}]]
            /\ reindexQueue' = << >>
            /\ burst' = {}
    /\ UNCHANGED <<journal, entities, memStore, mclock, memOp, memBase,
                   reindexTimer, sinceLast>>
    /\ UNCHANGED <<parseVars, convVars, searchVars, callVars, hookVars, sysVars>>

\* the loop of processReindexQueue awaits indexEntityFile(path); a failure
\* after k upserts is caught and logged inside it
IndexNextPath(r, k) ==
    /\ reindex[r].pc = "run"
    /\ LET path == Head(reindex[r].paths)
           items == EntityFileItems(path, entities)
       IN  /\ k <= Len(items)
           /\ memStore' = UpsertFirst(memStore, items, k)
           /\ reindex' = [reindex EXCEPT ![r] =
                [@ EXCEPT !.paths = Tail(@),
                          !.calls = Append(@, path),
                          !.errors = IF k < Len(items) THEN @ \cup {path} ELSE @,
                          !.pc = IF Tail(reindex[r].paths) = << >>
                                 THEN "done" ELSE "run"]]
    /\ UNCHANGED <<journal, entities, mclock, memOp, memBase, reindexQueue,
                   timers, reindexTimer, sinceLast, burst>>
    /\ UNCHANGED <<parseVars, convVars, searchVars, callVars, hookVars, sysVars>>

\* no pass has more items than this
MaxItems == MaxJournal + Len(AllItems(<< >>, EntityFiles))

MemIdle ==
    /\ journal = << >>
    /\ entities = {}
    /\ memStore = {}
    /\ mclock = 0
    /\ memOp = NoMemOp
    /\ memBase = NoBase
    /\ reindexQueue = << >>
    /\ timers = {}
    /\ reindexTimer = 0
    /\ sinceLast = DebounceMs
    /\ burst = {}
    /\ reindex = [r \in ReindexSlots |-> IdleReindex]

InitMem == MemIdle /\ ConvIdle /\ ParseIdle /\ SearchUnused

\* the server: log_journal and manage_index(memory, ...) calls, and edits
\* of the entity documents
NextMem ==
    \/ \E indexed \in BOOLEAN : LogJournal(indexed)
    \/ \E action \in {"rebuild", "update"},
          fail \in {"none", "open", "embed", "upsert"}, k \in 0..MaxItems :
          ManageIndexMemory(action, fail, k)
    \/ ManageIndexStats
    \/ \E f \in EntityFiles, kind \in {"write", "unlink"} : EditUnwatched(f, kind)

SpecMem == InitMem /\ [][NextMem]_vars

\* the daemon: watcher events, the debounce timer and the reindex passes
NextDaemon ==
    \/ \E f \in EntityFiles, kind \in {"write", "unlink"} : WatcherEvent(f, kind)
    \/ \E d \in TickMs : Tick(d)
    \/ \E t \in timers, r \in ReindexSlots : TimerFires(t, r)
    \/ \E r \in ReindexSlots, k \in 0..MaxItems : IndexNextPath(r, k)

SpecDaemon == InitMem /\ [][NextDaemon]_vars

-----------------------------------------------------------------------------
(* Properties of the memory index *)

\* the items of the store that hold the text of the journal's i-th record
ItemsOfRecord(i) ==
    {x \in memStore : /\ x.metadata.type = "journal"
                      /\ x.metadata.content = EntryText(journal[i])}

\* the items of the store that hold the text of a section of a document
ItemsOfSection(item) ==
    {x \in memStore : /\ x.metadata.type = item.type
                      /\ x.metadata.source = item.source
                      /\ x.metadata.content = item.content}

EntitySections ==
    LET found == parseEntitiesForIndexing(EntityFiles, "people", "person")
                 \o parseEntitiesForIndexing(EntityFiles, "projects", "project")
    IN  {found[i] : i \in 1..Len(found)}

\* C8: after any sequence of log_journal, rebuildIndex and indexEntityFile
\* calls, the Vector Store holds at most one item for each journal record
\* and for each entity section.
C8_AtMostOneItemPerUnit ==
    /\ \A i \in 1..Len(journal) : Cardinality(ItemsOfRecord(i)) <= 1
    /\ \A item \in EntitySections : Cardinality(ItemsOfSection(item)) <= 1

\* the last call was an update pass that resolved, and no source has
\* changed since
UpdateResolved == memOp.kind = "update" /\ memOp.ok /\ memBase.valid

-----------------------------------------------------------------------------
(* Properties of the daemon's debounce *)

PassStarts(r) == reindex[r].pc # "run" /\ reindex'[r].pc = "run"
PassEnds(r) == reindex[r].pc = "run" /\ reindex'[r].pc = "done"
EventArrives == reindexTimer' # reindexTimer

\* while events wait for their pass, exactly one timeout is pending: the one
\* armed by the last event, as old as that event
OneTimerPending ==
    IF burst = {} THEN timers = {} /\ reindexQueue = << >>
    ELSE /\ timers = {[id |-> reindexTimer, age |-> sinceLast]}
         /\ Elements(reindexQueue) = burst

\* what a step of the daemon may do to the passes
DebouncedStep ==
    /\ \A r \in ReindexSlots :
          PassStarts(r) =>
             /\ sinceLast >= DebounceMs
             /\ burst # {}
             /\ reindex'[r].snapshot = burst
             /\ reindexQueue' = << >>
             /\ timers' = {}
             /\ burst' = {}
    /\ \A r \in ReindexSlots :
          PassEnds(r) =>
             /\ Elements(reindex'[r].calls) = reindex[r].snapshot
             /\ Len(reindex'[r].calls) = Cardinality(reindex[r].snapshot)
    /\ EventArrives =>
             /\ \A r \in ReindexSlots : ~PassStarts(r)
             /\ timers' = {[id |-> reindexTimer', age |-> 0]}

\* C7: a reindex pass starts only when the quiet window has elapsed since
\* the last watcher event, so no pass starts inside a burst of events that
\* are less than one window apart; the pass takes every path reported since
\* the pass before it and leaves neither a queued path nor a pending
\* timeout, so the burst gets exactly one pass; and the pass calls
\* indexEntityFile exactly once for each distinct path.
C7_BurstYieldsOnePass ==
    /\ []OneTimerPending
    /\ [][DebouncedStep]_vars

\* three events, two distinct paths, and their one pass has ended
C7_Witness ==
    /\ reindexTimer = 3
    /\ reindex["r1"].pc = "done"
    /\ reindex["r2"].pc = "idle"
    /\ Cardinality(reindex["r1"].snapshot) = 2
    /\ Len(reindex["r1"].calls) = 2
    /\ timers = {}

-----------------------------------------------------------------------------
(* Properties of the conversation index: update without state, pruning *)

\* what rebuildConversationIndex's scan makes of the sources as they are
RebuildOutcome ==
    RebuildScan(scanConversationFiles(fs), fs, clock, IdlePass)

\* an update that found no IndexState record has resolved; no source
\* changed and no other pass ran meanwhile
UpdateFromNothing(p) ==
    /\ pass[p].kind = "update"
    /\ pass[p].pc = "done"
    /\ pass[p].alone
    /\ ~pass[p].startPersisted.exists

\* C11: an update() that finds no IndexState record parses, embeds and
\* upserts every discoverable source; the file map it saves, the items the
\* store holds for those sources and the count it reports are those of a
\* rebuild() over the same sources.
C11_UpdateWithoutStateIsRebuild ==
    \A p \in Passes :
        UpdateFromNothing(p)
        => /\ pass[p].skipped = 0
           /\ pass[p].parses = Cardinality({f \in Files : fs[f].present})
           /\ pass[p].filesUpdated = pass[p].parses
           /\ pass[p].upserts = Len(RebuildOutcome.exs)
           /\ pass[p].totalExchanges = Len(RebuildOutcome.exs)
           /\ persisted.exists
           /\ persisted.state.files = RebuildOutcome.state.files
           /\ \A i \in 1..Len(RebuildOutcome.exs) :
                 StoreItem(RebuildOutcome.exs[i]) \in convStore

\* such an update has resolved over two sources, three exchanges in all
C11_Witness ==
    \E p \in Passes :
        /\ UpdateFromNothing(p)
        /\ pass[p].parses = 2
        /\ pass[p].totalExchanges = 3
        /\ pass[p].embedCalls = 2

\* the sources a saved IndexState lists
ListedFiles(st) == {f \in Files : st.files[f].known}

\* a step of an update pass
UpdateSteps(p) == pass[p].kind = "update" /\ pass'[p] # pass[p]

\* C12: the IndexState a successful update() saves lists exactly the
\* sources discovered in that pass, a source that disappeared being
\* dropped; and no step of an update takes an item out of the Vector Store,
\* so the items of a dropped source stay as they were.
C12_UpdatePrunesStateNotStore ==
    /\ [](\A p \in Passes :
            (pass[p].kind = "update" /\ pass[p].pc = "done" /\ OthersIdle(p))
            => /\ ListedFiles(persisted.state) = pass[p].currentFiles
               /\ ListedFiles(pass[p].state) = pass[p].currentFiles)
    /\ [][\A p \in Passes :
            UpdateSteps(p)
            => \A x \in convStore :
                  \/ x \in convStore'
                  \/ /\ x.metadata.sessionPath \in pass'[p].currentFiles
                     /\ \E y \in convStore' : y.id = x.id]_vars

\* an update has dropped a source that disappeared, and the items that were
\* committed for it are still in the store
C12_Witness ==
    \E p \in Passes, f \in Files :
        /\ pass[p].kind = "update"
        /\ pass[p].pc = "done"
        /\ pass[p].startPersisted.state.files[f].known
        /\ ~persisted.state.files[f].known
        /\ \E x \in convStore : x.metadata.sessionPath = f

-----------------------------------------------------------------------------
(* Retrieval: searchConversations (conversations.ts) and searchMemory
   (indexer.ts), over what the vector index returns for a query *)

MaxHits == 2

\* one day, counted in seconds (the code counts milliseconds)
dayMs == 24 * 60 * 60

\* Date.now() of the call
SearchNow == 400 * dayMs

ProjectA == "/work/alpha"
ProjectB == "/work/beta"

\* r.score, in hundredths: the cosine similarity of two normalized vectors
\* lies in [-1, 1]
Scores == {-20, 0, 75, 80}

\* sample ages of an exchange, in days
AgeDays == {2, 7, 30, 90, 200, 365}

\* an ISO-8601 text as the fields that decide a comparison: day, hour and
\* zone offset in hours (0 is the "Z" that toISOString writes)
IsoText(day, hour, zone) == <<day, hour, zone>>
NoStamp == << >>

\* a < b on two such strings, code unit by code unit: the date, then the
\* time, then the suffix, where "-05:00" sorts before ".000Z"
StringLess(a, b) ==
    \/ a[1] < b[1]
    \/ a[1] = b[1] /\ a[2] < b[2]
    \/ a[1] = b[1] /\ a[2] = b[2] /\ a[3] # 0 /\ b[3] = 0

\* the metadata of the exchanges an index may hold
ConvItems ==
    [timestamp : {SearchNow - d * dayMs : d \in AgeDays},
     projectPath : {ProjectA, ProjectB}]

\* the metadata of the memory items an index may hold: journal entries
\* carry the time they were logged, entity sections carry none
MemItems ==
    {[type |-> "journal", content |-> "[work] note", source |-> "journal",
      section |-> NoVal, timestamp |-> IsoText(d[1], d[2], 0)] :
        d \in {<<4, 9>>, <<5, 3>>, <<5, 8>>}}
    \cup {[type |-> t, content |-> "Ship the index", source |-> t \o "-macro",
           section |-> "Goals", timestamp |-> NoStamp] : t \in {"person", "project"}}

\* the items of an index ranked for one query: nearest first, each with its
\* similarity; the id is the item's place in the index
RankedLists(items) ==
    {s \in UNION {[1..n -> [score : Scores, metadata : items]] : n \in 0..MaxHits} :
        \A i \in 1..(Len(s) - 1) : s[i].score >= s[i + 1].score}

WithIds(s) ==
    [i \in 1..Len(s) |-> [item |-> [id |-> i, metadata |-> s[i].metadata],
                           score |-> s[i].score]]

\* idx.queryItems(vector, topK)
queryItems(hits, topK) ==
    SubSeq(hits, 1, IF topK < Len(hits) THEN topK ELSE Len(hits))

\* getTimeWeight, in tenths
getTimeWeightInclusive(timestamp) ==
    LET age == SearchNow - timestamp
    IN  IF age <= 7 * dayMs THEN 10
        ELSE IF age <= 30 * dayMs THEN 9
        ELSE IF age <= 90 * dayMs THEN 7
        ELSE IF age <= 365 * dayMs THEN 5
        ELSE 3

getTimeWeight(timestamp) ==
    LET age == SearchNow - timestamp
    IN  IF age < 7 * dayMs THEN 10
        ELSE IF age < 30 * dayMs THEN 9
        ELSE IF age < 90 * dayMs THEN 7
        ELSE IF age < 365 * dayMs THEN 5
        ELSE 3

\* Array.prototype.sort with (a, b) => b.adjustedScore - a.adjustedScore:
\* descending and stable
RECURSIVE SortByAdjusted(_)
SortByAdjusted(s) ==
    IF s = << >> THEN << >>
    ELSE LET last == s[Len(s)]
             front == SortByAdjusted(SubSeq(s, 1, Len(s) - 1))
             keep == {i \in 1..Len(front) : front[i].adjustedScore >= last.adjustedScore}
             at == IF keep = {} THEN 0 ELSE CHOOSE i \in keep : \A j \in keep : j <= i
         IN  SubSeq(front, 1, at) \o <<last>> \o SubSeq(front, at + 1, Len(front))

\* .slice(0, limit)
Slice(s, limit) == SubSeq(s, 1, IF limit < Len(s) THEN limit ELSE Len(s))

\* searchConversations: the number of neighbours asked of the index (0 when
\* the index is empty and no query is made) and the results.  adjustedScore
\* is in units of 1/10000: hundredths times tenths times tenths, the boost
\* being 15 tenths when applied and 10 tenths when not
searchConversations(hits, currentProject, limit, projectOnly) ==
    IF Len(hits) = 0 THEN [topK |-> 0, embedCalls |-> 0, results |-> << >>]
    ELSE
    LET results == queryItems(hits, limit * 3)
        Boost(meta) ==
            IF ~Falsy(currentProject) /\ meta.projectPath = currentProject
            THEN 15 ELSE 10
        searchResults ==
            [i \in 1..Len(results) |->
                [exchange |-> [id |-> results[i].item.id,
                               projectPath |-> results[i].item.metadata.projectPath,
                               timestamp |-> results[i].item.metadata.timestamp],
                 score |-> results[i].score,
                 adjustedScore |->
                    results[i].score
                        * getTimeWeight(results[i].item.metadata.timestamp)
                        * Boost(results[i].item.metadata)]]
        InProject(r) == r.exchange.projectPath = currentProject
        filtered ==
            IF projectOnly /\ ~Falsy(currentProject)
            THEN SelectSeq(searchResults, InProject)
            ELSE searchResults
    IN  [topK |-> limit * 3, embedCalls |-> 1,
         results |-> Slice(SortByAdjusted(filtered), limit)]

\* searchMemory: the neighbours asked of the index and the results
searchMemory(hits, limit, type, since) ==
    IF Len(hits) = 0 THEN [topK |-> 0, embedCalls |-> 0, results |-> << >>]
    ELSE
    LET results == queryItems(hits, limit * 2)
        Keep(r) ==
            /\ ~(~Falsy(type) /\ r.item.metadata.type # type)
            /\ ~(since # NoStamp /\ r.item.metadata.timestamp # NoStamp
                    /\ StringLess(r.item.metadata.timestamp, since))
        filtered ==
            IF ~Falsy(type) \/ since # NoStamp
            THEN SelectSeq(results, Keep)
            ELSE results
        top == Slice(filtered, limit)
    IN  [topK |-> limit * 2, embedCalls |-> 1,
         results |->
            [i \in 1..Len(top) |->
                [content |-> top[i].item.metadata.content,
                 source |-> top[i].item.metadata.source,
                 section |-> top[i].item.metadata.section,
                 timestamp |-> top[i].item.metadata.timestamp,
                 type |-> top[i].item.metadata.type,
                 score |-> top[i].score]]]

Limits == 1..MaxHits

\* a call and its outcome: context is the project the caller works in,
\* currentProject what searchConversations is handed
\* what the tool answers: the results, or its message for an empty list
ToolAnswer(op, results) ==
    IF results # << >> THEN "results"
    ELSE IF op = "search_conversations"
    THEN "No matching conversations found. Try manage_index(target: 'conversations', action: 'update')."
    ELSE IF op = "searchConversationsTool"
    THEN "No matching conversations. Try rebuilding with rebuild_memory_index"
    ELSE "(no matches found)"

SearchCall(op, context, currentProject, projectOnly, type, since, limit, out) ==
    [op |-> op, context |-> context, currentProject |-> currentProject,
     projectOnly |-> projectOnly, type |-> type, since |-> since,
     limit |-> limit, topK |-> out.topK, embedCalls |-> out.embedCalls,
     results |-> out.results, answer |-> ToolAnswer(op, out.results)]

\* the server's search_conversations tool: the current project is the
\* CLAUDE_PROJECT_DIR of the environment, which may be unset
SearchConversations(currentProject, limit, projectOnly) ==
    /\ search = NoSearch
    /\ search' = SearchCall("search_conversations", currentProject, currentProject,
                            projectOnly, NoVal, NoStamp, limit,
                            searchConversations(convHits, currentProject, limit, projectOnly))
    /\ UNCHANGED <<convHits, memHits, parseVars, convVars, memVars, callVars, hookVars, sysVars>>

\* the plugin's searchConversationsTool: run in a session of project
\* `context`, it hands searchConversations the limit and the flag only
SearchConversationsTool(context, limit, projectOnly) ==
    /\ search = NoSearch
    /\ search' = SearchCall("searchConversationsTool", context, NoVal,
                            projectOnly, NoVal, NoStamp, limit,
                            searchConversations(convHits, NoVal, limit, projectOnly))
    /\ UNCHANGED <<convHits, memHits, parseVars, convVars, memVars, callVars, hookVars, sysVars>>

\* the server's search_memory tool
SearchMemory(limit, type, since) ==
    /\ search = NoSearch
    /\ search' = SearchCall("search_memory", NoVal, NoVal, FALSE, type, since, limit,
                            searchMemory(memHits, limit, type, since))
    /\ UNCHANGED <<convHits, memHits, parseVars, convVars, memVars, callVars, hookVars, sysVars>>

\* the floors a caller may give: none, a UTC instant, an instant with a
\* zone offset
Sinces == {NoStamp, IsoText(5, 4, 0), IsoText(5, 2, -5)}

InitSearch ==
    /\ search = NoSearch
    /\ \/ /\ convHits \in {WithIds(s) : s \in RankedLists(ConvItems)}
          /\ memHits = << >>
       \/ /\ convHits = << >>
          /\ memHits \in {WithIds(s) : s \in RankedLists(MemItems)}
    /\ input = NoCall
    /\ output = NoCall
    /\ HooksUnused
    /\ SysUnused
    /\ ConvIdle
    /\ ParseIdle
    /\ MemUnused

NextSearch ==
    \/ \E c \in {NoVal, ProjectA}, k \in Limits, po \in BOOLEAN :
            SearchConversations(c, k, po)
    \/ \E k \in Limits, po \in BOOLEAN : SearchConversationsTool(ProjectA, k, po)
    \/ \E k \in Limits, t \in {NoVal, "journal", "person"}, s \in Sinces :
            SearchMemory(k, t, s)

SpecSearch == InitSearch /\ [][NextSearch]_vars

-----------------------------------------------------------------------------
(* Properties of retrieval *)

ConvSearched == search.op \in {"search_conversations", "searchConversationsTool"}
MemSearched == search.op = "search_memory"

\* the candidate set of the call: what the index returned
Candidates == queryItems(IF ConvSearched THEN convHits ELSE memHits, search.topK)

\* the age bucket of an exchange: 1 for under 7 days, up to 5 for a year
\* and more
Bucket(c) ==
    LET age == SearchNow - c.item.metadata.timestamp
    IN  IF age < 7 * dayMs THEN 1
        ELSE IF age < 30 * dayMs THEN 2
        ELSE IF age < 90 * dayMs THEN 3
        ELSE IF age < 365 * dayMs THEN 4
        ELSE 5

\* whether the exchange belongs to the project the caller works in
MatchesContext(c) ==
    ~Falsy(search.context) /\ c.item.metadata.projectPath = search.context

\* the place of a candidate in the returned list, 0 when it is not returned
PosOf(c) ==
    LET at == {i \in 1..Len(search.results) : search.results[i].exchange.id = c.item.id}
    IN  IF at = {} THEN 0 ELSE CHOOSE i \in at : TRUE

Above(c, d) == PosOf(c) # 0 /\ (PosOf(d) = 0 \/ PosOf(c) < PosOf(d))

CandidatePairs ==
    {<<Candidates[i], Candidates[j]>> : i, j \in 1..Len(Candidates)}

\* C13: of two candidates of a conversation search with equal raw similarity
\* and equal context-match, the one in the more recent age bucket never
\* ranks below the one in the older bucket.
C13_RecentNeverBelowOlder ==
    ConvSearched =>
        \A pr \in CandidatePairs :
            (/\ pr[1].score = pr[2].score
             /\ MatchesContext(pr[1]) = MatchesContext(pr[2])
             /\ Bucket(pr[1]) < Bucket(pr[2]))
                => ~Above(pr[2], pr[1])

\* C14: of two candidates of a conversation search with equal raw similarity
\* and the same age bucket, the one of the caller's project ranks strictly
\* above the one of another project.
C14_ContextMatchRanksAbove ==
    ConvSearched =>
        \A pr \in CandidatePairs :
            (/\ pr[1].score = pr[2].score
             /\ Bucket(pr[1]) = Bucket(pr[2])
             /\ MatchesContext(pr[1])
             /\ ~MatchesContext(pr[2])
             /\ (PosOf(pr[1]) # 0 \/ PosOf(pr[2]) # 0))
                => Above(pr[1], pr[2])

\* C15: every result list, of a memory search as of a conversation search,
\* has at most K entries, each with the raw similarity and the adjusted
\* score, in non-increasing order of adjusted score.
C15_ResultsRankedByAdjustedScore ==
    search.op # "none" =>
        /\ Len(search.results) <= search.limit
        /\ \A i \in 1..Len(search.results) :
                {"score", "adjustedScore"} \subseteq DOMAIN search.results[i]
        /\ \A i \in 1..(Len(search.results) - 1) :
                search.results[i].adjustedScore >= search.results[i + 1].adjustedScore

\* the store's neighbour that a returned exchange was made of
HitOf(r) == convHits[r.exchange.id]

\* C16: adjustedScore = rawSimilarity x timeWeight x contextBoost for every
\* returned exchange, timeWeight 1.0 / 0.9 / 0.7 / 0.5 / 0.3 for an age
\* under 7 / 30 / 90 / 365 days and beyond (bounds exclusive), contextBoost
\* 1.5 for an exchange of the current project and 1.0 otherwise; the raw
\* similarity is returned as the index gave it.
C16_AdjustedScoreFormula ==
    ConvSearched =>
        \A i \in 1..Len(search.results) :
            LET r == search.results[i]
                age == SearchNow - r.exchange.timestamp
                timeWeight == CASE age < 7 * dayMs -> 10
                                [] age >= 7 * dayMs /\ age < 30 * dayMs -> 9
                                [] age >= 30 * dayMs /\ age < 90 * dayMs -> 7
                                [] age >= 90 * dayMs /\ age < 365 * dayMs -> 5
                                [] age >= 365 * dayMs -> 3
                contextBoost == IF r.exchange.projectPath = search.currentProject
                                THEN 15 ELSE 10
            IN  /\ r.score = HitOf(r).score
                /\ r.adjustedScore = r.score * timeWeight * contextBoost

C16_Witness ==
    /\ search.op = "search_conversations"
    /\ Len(search.results) = 2
    /\ search.results[1].exchange.timestamp = SearchNow - 7 * dayMs
    /\ search.results[1].exchange.projectPath = search.currentProject
    /\ search.results[1].score = 75
    /\ search.results[1].adjustedScore = 75 * 9 * 15
    /\ search.results[2].exchange.timestamp = SearchNow - 365 * dayMs
    /\ search.results[2].adjustedScore = 80 * 3 * 10

\* C17: with projectOnly set, every exchange a conversation search returns
\* is of the caller's current project.
C17_ProjectOnlyReturnsOnlyCurrentProject ==
    (ConvSearched /\ search.projectOnly) =>
        \A i \in 1..Len(search.results) :
            search.results[i].exchange.projectPath = search.context

\* C18: a search asked for K results asks the index for K x oversampleFactor
\* neighbours, oversampleFactor being at least 3.
C18_OversamplesThreefold ==
    search.topK # 0 =>
        /\ search.topK >= 3 * search.limit
        /\ search.topK % search.limit = 0

\* the instant an ISO-8601 text denotes, in hours
Instant(t) == t[1] * 24 + t[2] - t[3]

\* C19: a memory search returns no item of another type than the one asked
\* for, and with a since floor every returned item has a timestamp at or
\* after the floor.
C19_TypeAndSinceFiltersHold ==
    MemSearched =>
        \A i \in 1..Len(search.results) :
            /\ ~Falsy(search.type) => search.results[i].type = search.type
            /\ search.since # NoStamp =>
                    /\ search.results[i].timestamp # NoStamp
                    /\ Instant(search.results[i].timestamp) >= Instant(search.since)

-----------------------------------------------------------------------------
(* Properties of the extractor: unanswered user turns *)

\* an accepted user record is read while a user turn is pending
SecondUserTurn ==
    /\ ReadsLine
    /\ lastLine'.type = "user"
    /\ HasContent(lastLine'.content)
    /\ AcceptsUser(lastLine')
    /\ currentUser.set

EarlierTurn == Line("user", Str(<<Chars("Fix the bug", 11)>>), "m1", "s1", "main",
                    "2026-01-01T00:00:00Z")
LaterTurn == Line("user", Blocks(<<TextBlock(<<Chars("Add a unit test for it", 22)>>)>>),
                  "m2", "s1", "main", "2026-01-01T00:00:00Z")
Answer == Line("assistant", Blocks(<<ThinkingBlock, TextBlock(<<Chars("Done, tests pass", 16)>>)>>),
               "m3", "s1", "main", "2026-01-01T00:00:00Z")

\* two accepted user records and then an assistant record: whatever the
\* three contents, the first record is in no exchange, and the assistant
\* record, when it has plain text, is paired with the second
ReplacementScenarios ==
    \A c1, c2 \in {c \in UserContents : HasContent(c) /\ AcceptsUser([EarlierTurn EXCEPT !.content = c])} :
        \A a \in AssistantContents :
            LET out == parseConversationFile(
                           <<[EarlierTurn EXCEPT !.content = c1],
                             [LaterTurn EXCEPT !.content = c2],
                             [Answer EXCEPT !.content = a]>>,
                           TranscriptFile, TranscriptProject, ParseTime)
            IN  /\ \A i \in 1..Len(out) : out[i].messageUuid # "m1"
                /\ IF HasContent(a) /\ HasPlainText(a)
                   THEN /\ Len(out) = 1
                        /\ out[1].messageUuid = "m2"
                        /\ out[1].userPrompt = SliceTo(extractUserText(c2), UserPromptMax)
                   ELSE out = << >>

\* C20: an accepted user turn read while another is pending replaces it as
\* the pending turn and emits nothing, the replaced turn being in no
\* exchange; every exchange emitted pairs the turn pending at that moment,
\* so the next assistant record is paired with the later text only.
C20_LaterUserTurnReplacesPending ==
    [][/\ SecondUserTurn =>
            /\ currentUser'.set
            /\ currentUser'.msg = lastLine'
            /\ currentUser'.text = extractUserText(lastLine'.content)
            /\ exchanges' = exchanges
            /\ \A i \in 1..Len(exchanges) :
                    exchanges[i].messageUuid # currentUser.msg.uuid
       /\ exchanges' # exchanges => (currentUser.set /\ EmitsOnePairing)
       /\ ReplacementScenarios]_vars

\* the transcript EarlierTurn, LaterTurn, Answer was read: one exchange,
\* pairing the later turn with the answer
C20_Witness ==
    /\ lineNo = 3
    /\ lastLine = Answer
    /\ ~currentUser.set
    /\ exchanges = parseConversationFile(<<EarlierTurn, LaterTurn, Answer>>,
                                         TranscriptFile, TranscriptProject, ParseTime)
    /\ Len(exchanges) = 1
    /\ exchanges[1].messageUuid = "m2"
    /\ exchanges[1].userPrompt = <<Chars("Add a unit test for it", 22)>>

-----------------------------------------------------------------------------
(* Properties of the extractor: assistant records with no pending turn *)

AssistantWithoutPending ==
    /\ ReadsLine
    /\ lastLine'.type = "assistant"
    /\ ~currentUser.set

\* no user turn is in two exchanges
EachTurnPairedOnce ==
    \A i, j \in 1..Len(exchanges) :
        i # j => exchanges[i].messageUuid # exchanges[j].messageUuid

UnpairedAssistantStep ==
    /\ AssistantWithoutPending => (exchanges' = exchanges /\ currentUser' = NoUser)
    /\ exchanges' # exchanges => currentUser' = NoUser

\* C21: an assistant record read while no user turn is pending emits nothing
\* and leaves the pending slot empty; an emission empties the slot, so
\* further assistant records emit nothing until a user turn is accepted,
\* and no user turn is in more than one exchange.
C21_AssistantWithoutPendingEmitsNothing ==
    []EachTurnPairedOnce /\ [][UnpairedAssistantStep]_vars

\* the second line answered the first, and the third, another assistant
\* record with text of its own, found no pending turn and emitted nothing
C21_Witness ==
    /\ lineNo = 3
    /\ lastLine.type = "assistant"
    /\ HasPlainText(lastLine.content)
    /\ lastLine.content = Str(<<Chars("Fixed it by adding a mutex", 26)>>)
    /\ Len(exchanges) = 1
    /\ exchanges[1].messageUuid = Uuid(1)
    /\ exchanges[1].assistantSummary = <<Chars("Done, tests pass", 16)>>
    /\ currentUser = NoUser

-----------------------------------------------------------------------------
(* Properties of the extractor: lines that do not parse *)

\* the lines with a malformed line put before each place of `at`
RECURSIVE WithMalformed(_, _, _)
WithMalformed(lines, at, k) ==
    LET bad == IF k \in at THEN <<MalformedLine>> ELSE << >>
    IN  IF lines = << >> THEN bad
        ELSE bad \o <<Head(lines)>> \o WithMalformed(Tail(lines), at, k + 1)

SampleLines == {EarlierTurn, LaterTurn, Answer, FixedIt, ToolResultRecord}

SampleTranscripts == UNION {[1..n -> SampleLines] : n \in 0..MaxLines}

Exchanges(lines) ==
    parseConversationFile(lines, TranscriptFile, TranscriptProject, ParseTime)

\* malformed lines put anywhere into a transcript change nothing of its
\* exchanges
MalformedInsertions ==
    \A lines \in SampleTranscripts :
        \A at \in SUBSET (1..(Len(lines) + 1)) :
            Exchanges(WithMalformed(lines, at, 1)) = Exchanges(lines)

ReadsMalformed == ReadsLine /\ lastLine' = MalformedLine

\* C22: a malformed record changes neither the pending turn nor the
\* exchanges, and the scan goes on with the next record, so a transcript
\* with malformed records put in yields the exchanges of the transcript
\* without them.
C22_MalformedRecordsAreSkipped ==
    [][/\ ReadsMalformed => (currentUser' = currentUser /\ exchanges' = exchanges)
       /\ (lineNo < MaxLines /\ lastLine = MalformedLine) => ENABLED ReadAssistantLine
       /\ MalformedInsertions]_vars

\* a malformed record was read while the first line's user turn was
\* pending, and the turn is still pending
C22_Witness ==
    /\ lineNo = 2
    /\ lastLine = MalformedLine
    /\ currentUser.set
    /\ currentUser.msg.uuid = Uuid(1)
    /\ exchanges = << >>

-----------------------------------------------------------------------------
(* Properties of the conversation index: sources that cannot be read *)

\* the scan of pass p stands at a source that is no longer on disk
AtVanishedSource(p) ==
    /\ pass[p].pc = "scan"
    /\ pass[p].listing # << >>
    /\ ~fs[ScanHead(p)].present

\* C23: a source that has vanished, is unreadable or cannot be parsed does
\* not stop the pass: the pass goes on to the other sources and completes,
\* the bad source contributing nothing.
C23_BadSourceDoesNotStopPass ==
    [][\A p \in Passes :
          (AtVanishedSource(p) /\ pass'[p] # pass[p])
              => /\ pass'[p].pc # "failed"
                 /\ pass'[p].listing = Tail(pass[p].listing)]_vars

-----------------------------------------------------------------------------
(* Properties of the daemon: failures of the embedding or the store *)

\* C24: an index operation in which the embedding or the vector store fails
\* reports the failure to its caller: a processReindexQueue call sees
\* indexEntityFile reject for every path whose indexing failed.
C24_IndexFailureReachesCaller ==
    \A r \in ReindexSlots : reindex[r].errors \subseteq reindex[r].rejected

-----------------------------------------------------------------------------
(* Properties of retrieval: the empty index *)

IndexSearched == IF ConvSearched THEN convHits ELSE memHits

\* the answers that tell the caller to build the index
RebuildHints ==
    {"No matching conversations found. Try manage_index(target: 'conversations', action: 'update').",
     "No matching conversations. Try rebuilding with rebuild_memory_index"}

\* C25: a search of an index that holds no item returns no result, calls
\* the embedding not at all, and has the tool answer with a hint to build
\* the index.
C25_EmptyIndexGivesHint ==
    (search.op # "none" /\ IndexSearched = << >>) =>
        /\ search.results = << >>
        /\ search.embedCalls = 0
        /\ search.answer \in RebuildHints

-----------------------------------------------------------------------------
(* Index builds over source directories that may not exist *)

\* the source directories: journal, entities/people, entities/projects and
\* the transcript projects directory
DirNames == {"journal", "people", "projects", "transcripts"}

\* a disk: the directories that exist and what they hold
Disks ==
    {d \in [dirs : SUBSET DirNames,
            journal : {<< >>, <<JournalEntry(1, "work", "note 1")>>},
            entities : SUBSET EntityFiles,
            transcripts : SUBSET Files] :
        /\ d.journal # << >> => "journal" \in d.dirs
        /\ AliceFile \in d.entities => "people" \in d.dirs
        /\ MacroFile \in d.entities => "projects" \in d.dirs
        /\ d.transcripts # {} => "transcripts" \in d.dirs}

existsSync(disk, d) == d \in disk.dirs

\* readdirSync with no test before it: ENOENT for a missing directory
DirReadUnguarded(disk, d) == IF existsSync(disk, d) THEN "listed" ELSE "threw"

\* if (!existsSync(dir)) return; readdirSync(dir)
DirRead(disk, d) == IF ~existsSync(disk, d) THEN "skipped" ELSE "listed"

BuildOutcome(op, threw, count, calls) ==
    [op |-> op, ok |-> ~threw,
     itemCount |-> IF threw THEN 0 ELSE count,
     embedCalls |-> IF threw THEN 0 ELSE calls]

\* rebuildIndex: the three readers, then one embedBatch for all the items
rebuildIndex(disk) ==
    LET threw == "threw" \in {DirRead(disk, d) : d \in {"journal", "people", "projects"}}
        items == AllItems(disk.journal, disk.entities)
    IN  BuildOutcome("rebuildIndex", threw, Len(items),
                     IF items = << >> THEN 0 ELSE 1)

\* the transcript files as the conversation passes see them
TranscriptsOf(disk) ==
    [f \in Files |-> [present |-> f \in disk.transcripts, mtime |-> 1,
                      content |-> IF f = SessionA THEN 2 ELSE 1]]

\* rebuildConversationIndex: scan, then one embedBatch for all the exchanges
rebuildConversationIndex(disk) ==
    LET threw == DirRead(disk, "transcripts") = "threw"
        scanned == RebuildScan(scanConversationFiles(TranscriptsOf(disk)),
                               TranscriptsOf(disk), 0, IdlePass)
    IN  BuildOutcome("rebuildConversationIndex", threw, Len(scanned.exs),
                     IF scanned.exs = << >> THEN 0 ELSE 1)

\* updateConversationIndex with no IndexState: one embedBatch for each file
\* that has exchanges
updateConversationIndex(disk) ==
    LET threw == DirRead(disk, "transcripts") = "threw"
        scanned == RebuildScan(scanConversationFiles(TranscriptsOf(disk)),
                               TranscriptsOf(disk), 0, IdlePass)
        withExchanges == {f \in Files : scanned.state.files[f].exchangeIds # << >>}
    IN  BuildOutcome("updateConversationIndex", threw, Len(scanned.exs),
                     Cardinality(withExchanges))

RunBuild(out) ==
    /\ output = NoCall
    /\ output' = out
    /\ UNCHANGED <<input, parseVars, convVars, memVars, searchVars, hookVars, sysVars>>

RebuildIndex == RunBuild(rebuildIndex(input))
RebuildConversationIndex == RunBuild(rebuildConversationIndex(input))
UpdateConversationIndex == RunBuild(updateConversationIndex(input))

InitDirs ==
    /\ input \in Disks
    /\ HooksUnused
    /\ SysUnused
    /\ output = NoCall
    /\ convHits = << >>
    /\ memHits = << >>
    /\ search = NoSearch
    /\ ConvIdle
    /\ ParseIdle
    /\ MemUnused

NextDirs == RebuildIndex \/ RebuildConversationIndex \/ UpdateConversationIndex

SpecDirs == InitDirs /\ [][NextDirs]_vars

\* the directories an operation reads
DirsOf(op) ==
    IF op = "rebuildIndex" THEN {"journal", "people", "projects"} ELSE {"transcripts"}

\* the operation of the outcome, run on a disk
Rerun(disk) ==
    IF output.op = "rebuildIndex" THEN rebuildIndex(disk)
    ELSE IF output.op = "rebuildConversationIndex" THEN rebuildConversationIndex(disk)
    ELSE updateConversationIndex(disk)

\* C26: with a source directory missing, rebuild and update complete
\* without error and count what they would count were the directory there
\* and empty; with every directory of the operation missing they report
\* zero items and call the embedding not at all.
C26_MissingDirectoryGivesZeroItems ==
    output # NoCall =>
        /\ output.ok
        /\ output = Rerun([input EXCEPT !.dirs = DirNames])
        /\ DirsOf(output.op) \cap input.dirs = {} =>
                (output.itemCount = 0 /\ output.embedCalls = 0)

\* rebuildIndex ran with no journal directory and indexed Alice's two items
C26_Witness ==
    /\ output # NoCall
    /\ output.op = "rebuildIndex"
    /\ "journal" \notin input.dirs
    /\ input.entities = {AliceFile}
    /\ output.ok
    /\ output.itemCount = 2
    /\ output.embedCalls = 1

-----------------------------------------------------------------------------
(* The section split of an entity document *)

MaxDocLines == 4

DocLines == {HeadingLine("Notes"), HeadingLine("Goals"), TextLine("text"), BlankLine}
Docs == UNION {[1..n -> DocLines] : n \in 0..MaxDocLines}

\* parseEntitiesForIndexing on people/alice.md holding the document
ParseEntityDocument ==
    /\ output = NoCall
    /\ output' = [op |-> "parseEntitiesForIndexing",
                  items |-> SectionItems("person", "alice", "people/alice.md", input)]
    /\ UNCHANGED <<input, parseVars, convVars, memVars, searchVars, hookVars, sysVars>>

InitDoc ==
    /\ input \in Docs
    /\ HooksUnused
    /\ SysUnused
    /\ output = NoCall
    /\ convHits = << >>
    /\ memHits = << >>
    /\ search = NoSearch
    /\ ConvIdle
    /\ ParseIdle
    /\ MemUnused

NextDoc == ParseEntityDocument

SpecDoc == InitDoc /\ [][NextDoc]_vars

\* whether some line of doc[from..to] has text
HasText(doc, from, to) == \E i \in from..to : i \in 1..Len(doc) /\ doc[i].text # ""

\* the place of the heading after place i, or the end of the document
NextHeadingOrEnd(doc, i) ==
    LET later == {j \in (i + 1)..Len(doc) : doc[j].h}
    IN  IF later = {} THEN Len(doc) + 1 ELSE CHOOSE j \in later : \A k \in later : j <= k

\* the titles of the headings that have a body, in document order
RECURSIVE HeadingsWithBody(_, _)
HeadingsWithBody(doc, i) ==
    IF i > Len(doc) THEN << >>
    ELSE (IF doc[i].h /\ HasText(doc, i + 1, NextHeadingOrEnd(doc, i) - 1)
          THEN <<doc[i].text>> ELSE << >>)
         \o HeadingsWithBody(doc, i + 1)

HasPreamble(doc) == HasText(doc, 1, NextHeadingOrEnd(doc, 0) - 1)

SectionItemsOf(items) == SelectSeq(items, LAMBDA it : it.section # "preamble")

Labels(items) == [i \in 1..Len(items) |-> items[i].section]

\* C27: a document yields one item for each second-level heading that has a
\* body (N items for N headings when every body is non-empty) and none for
\* a heading without, plus one preamble item exactly when there is text
\* before the first heading; the labels of the section items, in item
\* order, are the headings in document order.
C27_SectionSplit ==
    output # NoCall =>
        LET sections == SectionItemsOf(output.items)
            headings == {i \in 1..Len(input) : input[i].h}
        IN  /\ Labels(sections) = HeadingsWithBody(input, 1)
            /\ (\A i \in headings : HasText(input, i + 1, NextHeadingOrEnd(input, i) - 1))
                    => Len(sections) = Cardinality(headings)
            /\ Len(output.items) - Len(sections) = IF HasPreamble(input) THEN 1 ELSE 0
            /\ HasPreamble(input) <=> (output.items # << >> /\ output.items[1].section = "preamble")

\* two headings with bodies, in an order that is not alphabetical, gave two
\* items labelled in that order
C27_Witness ==
    /\ output # NoCall
    /\ output.op = "parseEntitiesForIndexing"
    /\ input = <<HeadingLine("Notes"), TextLine("text"), HeadingLine("Goals"), TextLine("text")>>
    /\ Labels(output.items) = <<"Notes", "Goals">>

-----------------------------------------------------------------------------
(* Queries running side by side: searchMemory and searchConversations  *)
(* calls, each split at its awaits                                      *)

QuerySlots == {"q1", "q2"}

IdleQuery == [pc |-> "idle"]

SampleConvIndex ==
    WithIds(<<[score |-> 80, metadata |-> [timestamp |-> SearchNow - 2 * dayMs,
                                           projectPath |-> ProjectA]],
              [score |-> 75, metadata |-> [timestamp |-> SearchNow - 30 * dayMs,
                                           projectPath |-> ProjectB]]>>)

SampleMemIndex ==
    WithIds(<<[score |-> 80, metadata |-> [type |-> "journal", content |-> "[work] note",
                                           source |-> "journal", section |-> NoVal,
                                           timestamp |-> IsoText(5, 3, 0)]],
              [score |-> 75, metadata |-> [type |-> "person", content |-> "Ship the index",
                                           source |-> "person-macro", section |-> "Goals",
                                           timestamp |-> NoStamp]]>>)

\* an index state written by an earlier pass
SampleState == saveIndexState([EmptyState EXCEPT !.lastUpdate = 1])

\* getConversationIndex with createIndex deleting what it finds
getConversationIndexRecreates(created, hits) == [created |-> TRUE, hits |-> << >>]

\* getConversationIndex: the index is created, empty, only if there is none
getConversationIndex(created, hits) ==
    [created |-> TRUE, hits |-> IF created THEN hits ELSE << >>]

\* getIndex of the memory index, the same
getIndex(created, hits) ==
    [created |-> TRUE, hits |-> IF created THEN hits ELSE << >>]

QueryFrame == UNCHANGED <<input, search, hookVars, sysVars, persisted, fs, convStore, clock, pass,
                          prevUpdate, parseVars, memVars>>

\* a caller starts searchConversations
StartSearchConversations(q, currentProject, limit, projectOnly) ==
    /\ output[q].pc \in {"idle", "done"}
    /\ output' = [output EXCEPT ![q] =
            [pc |-> "open", op |-> "searchConversations", currentProject |-> currentProject,
             projectOnly |-> projectOnly, type |-> NoVal, limit |-> limit]]
    /\ UNCHANGED <<convHits, memHits, indexCreated>>
    /\ QueryFrame

\* a caller starts searchMemory
StartSearchMemory(q, limit, type) ==
    /\ output[q].pc \in {"idle", "done"}
    /\ output' = [output EXCEPT ![q] =
            [pc |-> "open", op |-> "searchMemory", currentProject |-> NoVal,
             projectOnly |-> FALSE, type |-> type, limit |-> limit]]
    /\ UNCHANGED <<convHits, memHits, indexCreated>>
    /\ QueryFrame

\* await getConversationIndex() / await getIndex()
QueryOpensIndex(q) ==
    /\ output[q].pc = "open"
    /\ IF output[q].op = "searchConversations"
       THEN LET idx == getConversationIndex(indexCreated, convHits)
            IN  /\ indexCreated' = idx.created
                /\ convHits' = idx.hits
                /\ UNCHANGED memHits
       ELSE LET idx == getIndex(memHits # << >>, memHits)
            IN  /\ memHits' = idx.hits
                /\ UNCHANGED <<convHits, indexCreated>>
    /\ output' = [output EXCEPT ![q].pc = "query"]
    /\ QueryFrame

\* listItems, embed, queryItems and the ranking; the call returns
QueryReturns(q) ==
    /\ output[q].pc = "query"
    /\ LET c == output[q]
           out == IF c.op = "searchConversations"
                  THEN searchConversations(convHits, c.currentProject, c.limit, c.projectOnly)
                  ELSE searchMemory(memHits, c.limit, c.type, NoStamp)
       IN  output' = [output EXCEPT ![q] = [c EXCEPT !.pc = "done"] @@ [results |-> out.results]]
    /\ UNCHANGED <<convHits, memHits, indexCreated>>
    /\ QueryFrame

InitQuery ==
    /\ convHits \in {<< >>, SampleConvIndex}
    /\ memHits \in {<< >>, SampleMemIndex}
    /\ search = NoSearch
    /\ fs = [f \in Files |-> [present |-> FALSE, mtime |-> 0, content |-> 1]]
    /\ persisted \in {[exists |-> FALSE, state |-> EmptyState], SampleState}
    /\ convStore = {}
    /\ indexCreated \in BOOLEAN
    /\ convHits # << >> => indexCreated
    /\ clock = 0
    /\ pass = [p \in Passes |-> IdlePass]
    /\ prevUpdate = [valid |-> FALSE, count |-> 0]
    /\ input = [convHits |-> convHits, memHits |-> memHits, persisted |-> persisted]
    /\ output = [q \in QuerySlots |-> IdleQuery]
    /\ HooksUnused
    /\ SysUnused
    /\ ParseIdle
    /\ MemUnused

NextQuery ==
    \E q \in QuerySlots :
        \/ \E c \in {NoVal, ProjectA}, k \in Limits, po \in BOOLEAN :
                StartSearchConversations(q, c, k, po)
        \/ \E k \in Limits, t \in {NoVal, "journal"} : StartSearchMemory(q, k, t)
        \/ QueryOpensIndex(q)
        \/ QueryReturns(q)

SpecQuery == InitQuery /\ [][NextQuery]_vars

\* C28: however searchMemory and searchConversations calls interleave, the
\* items of the two indexes and the persisted index state stay what they
\* were before the calls.
C28_QueriesAreReadOnly ==
    [convHits |-> convHits, memHits |-> memHits, persisted |-> persisted] = input

\* a searchMemory call has returned items while a searchConversations call
\* that began in the meantime holds the open index
C28_Witness ==
    /\ output["q1"].pc = "done"
    /\ output["q1"].op = "searchMemory"
    /\ output["q1"].results # << >>
    /\ output["q2"].pc = "query"
    /\ output["q2"].op = "searchConversations"
    /\ convHits = SampleConvIndex
    /\ persisted = SampleState

-----------------------------------------------------------------------------
(* The hook script: session-start and prompt-submit of several sessions *)
(* over one state root                                                   *)

MaxEdits == 2
MaxPrompts == 2

Sessions == {"s1", "s2"}
StateFiles == {"identity", "today", "human", "workspace"}

NoLastmod == [exists |-> FALSE]

\* stat -f %m of every state file (0 for a missing one)
StatAll(disk) == disk.mtime

\* store_lastmod: the four mtimes written to .context-lastmod.json
store_lastmod(disk) == [disk EXCEPT !.lastmod = [exists |-> TRUE, mtime |-> StatAll(disk)]]

\* check_files_changed: true without a lastmod file, or when the mtime of
\* some state file differs from the stored one
check_files_changed(disk) ==
    \/ ~disk.lastmod.exists
    \/ \E f \in StateFiles : StatAll(disk)[f] # disk.lastmod.mtime[f]

NewSession == [started |-> FALSE, pc |-> "idle", shown |-> NoLastmod,
               prompts |-> 0, last |-> "none"]

HookFrame == UNCHANGED <<parseVars, convVars, memVars, searchVars, callVars, sysVars>>

\* session-start begins: start_daemon, then on to inject_static_context
SessionStart(s) ==
    /\ ~sessions[s].started
    /\ sessions' = [sessions EXCEPT ![s].started = TRUE, ![s].pc = "inject"]
    /\ UNCHANGED stateDisk
    /\ HookFrame

\* prompt-submit begins: start_daemon, inject_pending_context, then the
\* check_files_changed test
PromptSubmit(s) ==
    /\ sessions[s].started
    /\ sessions[s].pc = "idle"
    /\ sessions[s].prompts < MaxPrompts
    /\ sessions' = [sessions EXCEPT
            ![s].prompts = @ + 1,
            ![s].pc = IF check_files_changed(stateDisk) THEN "inject" ELSE "idle",
            ![s].last = IF check_files_changed(stateDisk) THEN "pending" ELSE "skipped"]
    /\ UNCHANGED stateDisk
    /\ HookFrame

\* inject_static_context: the session is shown the files as they are now
InjectStaticContext(s) ==
    /\ sessions[s].pc = "inject"
    /\ sessions' = [sessions EXCEPT
            ![s].shown = [exists |-> TRUE, mtime |-> StatAll(stateDisk)],
            ![s].last = "injected",
            ![s].pc = "store"]
    /\ UNCHANGED stateDisk
    /\ HookFrame

\* store_lastmod, which ends the hook run
StoreLastmod(s) ==
    /\ sessions[s].pc = "store"
    /\ stateDisk' = store_lastmod(stateDisk)
    /\ sessions' = [sessions EXCEPT ![s].pc = "idle"]
    /\ HookFrame

\* somebody writes a state file
EditStateFile(f) ==
    /\ stateDisk.edits < MaxEdits
    /\ stateDisk' = [stateDisk EXCEPT !.mtime[f] = @ + 1, !.edits = @ + 1]
    /\ UNCHANGED sessions
    /\ HookFrame

InitHooks ==
    /\ stateDisk = [mtime |-> [f \in StateFiles |-> 1], lastmod |-> NoLastmod, edits |-> 0]
    /\ sessions = [s \in Sessions |-> NewSession]
    /\ SysUnused
    /\ SearchUnused!1
    /\ SearchUnused!2
    /\ SearchUnused!3
    /\ SearchUnused!4
    /\ SearchUnused!5
    /\ ConvIdle
    /\ ParseIdle
    /\ MemUnused

NextHooks ==
    \/ \E s \in Sessions :
        \/ SessionStart(s)
        \/ PromptSubmit(s)
        \/ InjectStaticContext(s)
        \/ StoreLastmod(s)
    \/ \E f \in StateFiles : EditStateFile(f)

SpecHooks == InitHooks /\ [][NextHooks]_vars

\* the session has been shown the state files as they are now
ShownCurrent(s) ==
    /\ sessions[s].shown.exists
    /\ sessions[s].shown.mtime = StatAll(stateDisk)

\* C29: at a prompt-submit of a running session, the static context is
\* re-injected if a state file has changed since the session was last shown
\* the files, and is not re-injected if what it was shown is current,
\* whatever the other sessions did in between.
C29_ChangedFilesReinjectedPerSession ==
    [][\A s \in Sessions :
        sessions'[s].prompts # sessions[s].prompts =>
            (sessions'[s].pc = "inject" <=> ~ShownCurrent(s))]_vars

-----------------------------------------------------------------------------
(* Reading the journal back: get_recent_journal *)

MaxDays == 2
MaxPerDay == 2
MaxCount == 2

\* the most entries get_recent_journal reads before it filters
ReadCap == 100

JournalTopics == {"work", "home"}

\* line i of the partition of day d: an entry, or a line JSON.parse rejects;
\* entries are stamped in the order they were logged
JournalLine(d, i, kind) ==
    IF kind = "malformed" THEN [ok |-> FALSE]
    ELSE [ok |-> TRUE,
          entry |-> [timestamp |-> (d - 1) * (MaxPerDay + 1) + i, topic |-> kind,
                     content |-> "note"]]

\* a journal directory: the partitions in name order, oldest day first
JournalDisks(maxDays) ==
    UNION {{[d \in 1..days |-> [i \in 1..Len(kinds[d]) |-> JournalLine(d, i, kinds[d][i])]] :
                kinds \in [1..days -> UNION {[1..n -> JournalTopics \cup {"malformed"}] :
                                                n \in 0..MaxPerDay}]} :
           days \in 0..maxDays}

\* the lines of one partition, last first, while fewer than count entries
\* are held
RECURSIVE ReadLinesUpTo(_, _, _, _)
ReadLinesUpTo(lines, i, entries, count) ==
    IF i = 0 \/ Len(entries) >= count THEN entries
    ELSE ReadLinesUpTo(lines, i - 1,
                       IF lines[i].ok THEN Append(entries, lines[i].entry) ELSE entries,
                       count)

RECURSIVE ReadPartitions(_, _, _, _)
ReadPartitions(disk, d, entries, count) ==
    IF d = 0 \/ Len(entries) >= count THEN entries
    ELSE ReadPartitions(disk, d - 1,
                        ReadLinesUpTo(disk[d], Len(disk[d]), entries, count), count)

\* getRecentJournalEntries of the server
getRecentJournalEntries(disk, count) == ReadPartitions(disk, Len(disk), << >>, count)

WithTopic(entries, topic) ==
    IF Falsy(topic) THEN entries ELSE SelectSeq(entries, LAMBDA e : e.topic = topic)

\* the get_recent_journal tool of the server
get_recent_journal(disk, count, topic) ==
    LET entries == getRecentJournalEntries(disk, IF count * 2 < ReadCap THEN count * 2
                                                 ELSE ReadCap)
    IN  Slice(WithTopic(entries, topic), count)

\* whole partitions, newest first, while fewer than count * 2 entries are held
RECURSIVE ReadWholePartitions(_, _, _, _)
ReadWholePartitions(disk, d, entries, count) ==
    IF d = 0 \/ Len(entries) >= count * 2 THEN entries
    ELSE ReadWholePartitions(disk, d - 1,
                             ReadLinesUpTo(disk[d], Len(disk[d]), entries,
                                           Len(entries) + Len(disk[d]) + 1), count)

\* getRecentJournal of the plugin
getRecentJournal(disk, count, topic) ==
    Slice(WithTopic(ReadWholePartitions(disk, Len(disk), << >>, count), topic), count)

GetRecentJournalTool ==
    /\ output = NoCall
    /\ output' = [op |-> "get_recent_journal",
                  entries |-> get_recent_journal(input.journal, input.count, input.topic)]
    /\ UNCHANGED <<input, parseVars, convVars, memVars, searchVars, hookVars, sysVars>>

GetRecentJournalPlugin ==
    /\ output = NoCall
    /\ output' = [op |-> "getRecentJournal",
                  entries |-> getRecentJournal(input.journal, input.count, input.topic)]
    /\ UNCHANGED <<input, parseVars, convVars, memVars, searchVars, hookVars, sysVars>>

InitJournal ==
    /\ input \in [journal : JournalDisks(MaxDays), count : 1..MaxCount,
                  topic : JournalTopics \cup {NoVal}]
    /\ output = NoCall
    /\ HooksUnused
    /\ SysUnused
    /\ convHits = << >>
    /\ memHits = << >>
    /\ search = NoSearch
    /\ ConvIdle
    /\ ParseIdle
    /\ MemUnused

NextJournal == GetRecentJournalTool \/ GetRecentJournalPlugin

SpecJournal == InitJournal /\ [][NextJournal]_vars

\* every entry of the journal, newest first
RECURSIVE NewestFirst(_, _)
NewestFirst(disk, d) ==
    IF d = 0 THEN << >>
    ELSE LET lines == disk[d]
             kept == SelectSeq([i \in 1..Len(lines) |-> lines[Len(lines) + 1 - i]],
                               LAMBDA l : l.ok)
         IN  [i \in 1..Len(kept) |-> kept[i].entry] \o NewestFirst(disk, d - 1)

\* C30: get_recent_journal(count = N, topic = T) returns the N most recent
\* entries of topic T, or all of them when there are fewer, newest first;
\* without a topic, the N most recent entries of the journal, newest first.
C30_RecentJournalOfTopic ==
    output # NoCall =>
        output.entries =
            Slice(WithTopic(NewestFirst(input.journal, Len(input.journal)), input.topic),
                   input.count)

-----------------------------------------------------------------------------
(* One entity document indexed two ways: by the watcher's indexEntityFile *)
(* and by rebuildIndex                                                     *)

\* state roots: the default one, and one below a directory named people
EntityRoots == {EntitiesDir, <<"", "srv", "people", "macrodata", "entities">>}

\* file names, as the pieces around each ".md"
EntityNames == {<<"alice", ".md">>, <<"a", ".md", ".b", ".md">>, <<"notes", ".txt">>}

\* indexEntityFile(filePath) on a readable file holding doc
indexEntityFile(p, doc) ==
    LET type == IF PathIncludesDir(p, "people") THEN "person"
                ELSE IF PathIncludesDir(p, "projects") THEN "project"
                ELSE NoVal
        subdir == IF type = "person" THEN "people" ELSE "projects"
    IN  IF type = NoVal THEN << >>
        ELSE SectionItems(type, BasenameNoMd(p), subdir \o "/" \o Basename(p), doc)

\* what parseEntitiesForIndexing(subdir, type) derives from the file p
\* holding doc, the entities directory being root
EntityItemsOfFile(root, subdir, type, p, doc) ==
    IF p.dir = Append(root, subdir) /\ EndsWithMd(p)
    THEN SectionItems(type, Join(ReplaceMd(p.segs)), subdir \o "/" \o Basename(p), doc)
    ELSE << >>

\* rebuildIndex: the items of the two entity readers for that file
RebuildItemsOfFile(root, p, doc) ==
    EntityItemsOfFile(root, "people", "person", p, doc)
    \o EntityItemsOfFile(root, "projects", "project", p, doc)

InputPath == [dir |-> Append(input.root, input.subdir), segs |-> input.name]

IndexSingleSource ==
    /\ output.single = NoCall
    /\ output' = [output EXCEPT !.single = [items |-> indexEntityFile(InputPath, input.doc)]]
    /\ UNCHANGED <<input, parseVars, convVars, memVars, searchVars, hookVars, sysVars>>

RebuildOverDocument ==
    /\ output.full = NoCall
    /\ output' = [output EXCEPT !.full =
                    [items |-> RebuildItemsOfFile(input.root, InputPath, input.doc)]]
    /\ UNCHANGED <<input, parseVars, convVars, memVars, searchVars, hookVars, sysVars>>

InitEntity ==
    /\ input \in [root : EntityRoots, subdir : {"people", "projects"},
                  name : EntityNames, doc : Docs]
    /\ output = [single |-> NoCall, full |-> NoCall]
    /\ HooksUnused
    /\ SysUnused
    /\ convHits = << >>
    /\ memHits = << >>
    /\ search = NoSearch
    /\ ConvIdle
    /\ ParseIdle
    /\ MemUnused

NextEntity == IndexSingleSource \/ RebuildOverDocument

SpecEntity == InitEntity /\ [][NextEntity]_vars

\* C31: for a document directly under people/ or projects/,
\* indexEntityFile upserts exactly the items (ids, types, sources, section
\* labels, content) that rebuildIndex derives from the same document.
C31_SingleSourceMatchesRebuild ==
    (output.single # NoCall /\ output.full # NoCall /\ EndsWithMd(InputPath))
        => output.single.items = output.full.items

-----------------------------------------------------------------------------
(* The daemon: its start over the PID file, its schedules, the reminders *)
(* it fires                                                               *)

MaxWrites == 2
MaxTime == 2
MaxFires == 2
MaxReloads == 2

Procs == {"d1", "d2"}
ScheduleIds == {"r1", "r2"}
CronExpressions == {"0 9 * * *", "0 18 * * *"}

NoPid == "none"
NoSched == [type |-> "none"]

\* a Schedule; the expression is a cron pattern or an ISO datetime
Schedule(id, type, cron, at, payload, createdAt) ==
    [id |-> id, type |-> type, expression |-> [cron |-> cron, at |-> at],
     payload |-> payload, createdAt |-> createdAt]

\* new Date(schedule.expression).getTime()
getTime(expression) == expression.at

\* process.kill(pid, 0) succeeds
Alive(q) == q \in Procs /\ procs[q].pc \in {"start", "checked", "written", "up"}

\* is_daemon_running / ensureDaemonRunning's test: the PID file names a
\* live process
is_daemon_running == Alive(pidFile)

StoppedProc == [pc |-> "off", cronJobs |-> [id \in ScheduleIds |-> NoSched],
                reloads |-> 0, changed |-> FALSE]

\* saveSchedules: the file is rewritten, and the watcher of every daemon
\* that runs sees a change
saveSchedules(byId, ps) ==
    /\ schedules' = [byId |-> byId,
                     created |-> IF byId = schedules.byId \/ \A id \in ScheduleIds :
                                        byId[id] \in {NoSched, schedules.byId[id]}
                                 THEN schedules.created ELSE schedules.created + 1]
    /\ procs' = [q \in Procs |-> IF ps[q].pc = "up"
                                 THEN [ps[q] EXCEPT !.changed = TRUE] ELSE ps[q]]

SchedFrame == UNCHANGED <<parseVars, convVars, memVars, searchVars, callVars, hookVars,
                          pendVars, handleVars>>

\* start_daemon of a hook, or ensureDaemonRunning of the plugin: no live
\* daemon is named by the PID file, so one is spawned
Launch(p) ==
    /\ procs[p].pc = "off"
    /\ ~is_daemon_running
    /\ procs' = [procs EXCEPT ![p].pc = "start"]
    /\ UNCHANGED <<pidFile, schedules, fired, wallNow, pendingFile>>
    /\ UNCHANGED <<consumer, delivered, handleVars>>
    /\ UNCHANGED <<parseVars, convVars, memVars, searchVars, callVars, hookVars>>

\* start(): the PID file is read; the process exits if it names a live one
CheckPid(p) ==
    /\ procs[p].pc = "start"
    /\ procs' = [procs EXCEPT ![p].pc = IF Alive(pidFile) THEN "exited" ELSE "checked"]
    /\ UNCHANGED <<pidFile, schedules, fired, wallNow>>
    /\ SchedFrame

\* start(): writeFileSync(pidFile, process.pid)
WritePid(p) ==
    /\ procs[p].pc = "checked"
    /\ pidFile' = p
    /\ procs' = [procs EXCEPT ![p].pc = "written"]
    /\ UNCHANGED <<schedules, fired, wallNow>>
    /\ SchedFrame

\* a stored one-shot whose time has passed
Expired(sch) == sch.type = "once" /\ ~(getTime(sch.expression) > wallNow)

\* what the loops of loadAndStartSchedules and reloadSchedules do with the
\* schedule stored under an id that has no job: start it, or drop it
StartOrDrop(sch) == IF sch.type = "none" \/ Expired(sch) THEN NoSched ELSE sch

\* loadAndStartSchedules, which ends the start
LoadAndStartSchedules(p) ==
    /\ procs[p].pc = "written"
    /\ LET store == schedules.byId
           kept == [id \in ScheduleIds |-> StartOrDrop(store[id])]
           ps == [procs EXCEPT ![p].pc = "up", ![p].cronJobs = kept]
       IN  IF \E id \in ScheduleIds : Expired(store[id])
           THEN saveSchedules(kept, ps)
           ELSE procs' = ps /\ UNCHANGED schedules
    /\ UNCHANGED <<pidFile, fired, wallNow>>
    /\ SchedFrame

\* reloadSchedules, run when the watcher reports the file changed
ReloadSchedules(p) ==
    /\ procs[p].pc = "up"
    /\ procs[p].changed
    /\ procs[p].reloads < MaxReloads
    /\ LET store == schedules.byId
           jobs == procs[p].cronJobs
           after == [id \in ScheduleIds |->
                        IF jobs[id] # NoSched
                        THEN (IF store[id] # NoSched THEN jobs[id] ELSE NoSched)
                        ELSE StartOrDrop(store[id])]
           dropped == {id \in ScheduleIds : jobs[id] = NoSched /\ Expired(store[id])}
           ps == [procs EXCEPT ![p].cronJobs = after, ![p].reloads = @ + 1,
                               ![p].changed = FALSE]
       IN  IF dropped # {}
           THEN saveSchedules([id \in ScheduleIds |->
                                  IF id \in dropped THEN NoSched ELSE store[id]], ps)
           ELSE procs' = ps /\ UNCHANGED schedules
    /\ UNCHANGED <<pidFile, fired, wallNow>>
    /\ SchedFrame

\* fireSchedule: the call and the line it appends to the pending context
Fire(p, sch) ==
    /\ Len(fired) < MaxFires
    /\ fired' = Append(fired, [by |-> p, schedule |-> sch])

\* a cron job's callback
FireCron(p, id) ==
    /\ procs[p].pc = "up"
    /\ procs[p].cronJobs[id].type = "cron"
    /\ Fire(p, procs[p].cronJobs[id])
    /\ UNCHANGED <<pidFile, procs, schedules, wallNow>>
    /\ SchedFrame

\* a one-shot job's callback: fireSchedule, then removeSchedule(id)
FireOnce(p, id) ==
    /\ procs[p].pc = "up"
    /\ procs[p].cronJobs[id].type = "once"
    /\ getTime(procs[p].cronJobs[id].expression) <= wallNow
    /\ Fire(p, procs[p].cronJobs[id])
    /\ saveSchedules([schedules.byId EXCEPT ![id] = NoSched],
                     [procs EXCEPT ![p].cronJobs[id] = NoSched])
    /\ UNCHANGED <<pidFile, wallNow>>
    /\ SchedFrame

\* the schedule_reminder tool
ScheduleReminder(id, cron, payload) ==
    /\ schedules.created < MaxWrites
    /\ saveSchedules([schedules.byId EXCEPT ![id] =
                        Schedule(id, "cron", cron, 0, payload, schedules.created + 1)],
                     procs)
    /\ UNCHANGED <<pidFile, fired, wallNow>>
    /\ SchedFrame

\* the schedule_once tool
ScheduleOnce(id, at, payload) ==
    /\ schedules.created < MaxWrites
    /\ saveSchedules([schedules.byId EXCEPT ![id] =
                        Schedule(id, "once", "", at, payload, schedules.created + 1)],
                     procs)
    /\ UNCHANGED <<pidFile, fired, wallNow>>
    /\ SchedFrame

\* the remove_reminder tool
RemoveReminder(id) ==
    /\ schedules.byId[id] # NoSched
    /\ saveSchedules([schedules.byId EXCEPT ![id] = NoSched], procs)
    /\ UNCHANGED <<pidFile, fired, wallNow>>
    /\ SchedFrame

\* shutdown() on SIGTERM
Shutdown(p) ==
    /\ procs[p].pc = "up"
    /\ procs' = [procs EXCEPT ![p] = [StoppedProc EXCEPT !.pc = "exited"]]
    /\ pidFile' = IF pidFile = p THEN NoPid ELSE pidFile
    /\ UNCHANGED <<schedules, fired, wallNow>>
    /\ SchedFrame

ClockTick ==
    /\ wallNow < MaxTime
    /\ wallNow' = wallNow + 1
    /\ UNCHANGED <<pidFile, procs, schedules, fired>>
    /\ SchedFrame

InitSched ==
    /\ pidFile = NoPid
    /\ procs = [p \in Procs |-> StoppedProc]
    /\ schedules = [created |-> 0, byId |-> [id \in ScheduleIds |-> NoSched]]
    /\ fired = << >>
    /\ wallNow = 0
    /\ PendUnused
    /\ HandleUnused
    /\ stateDisk = NoCall
    /\ sessions = NoCall
    /\ SearchUnused!1
    /\ SearchUnused!2
    /\ SearchUnused!3
    /\ SearchUnused!4
    /\ SearchUnused!5
    /\ ConvIdle
    /\ ParseIdle
    /\ MemUnused

NextSched ==
    \/ \E p \in Procs :
        \/ Launch(p)
        \/ CheckPid(p)
        \/ WritePid(p)
        \/ LoadAndStartSchedules(p)
        \/ ReloadSchedules(p)
        \/ Shutdown(p)
        \/ \E id \in ScheduleIds : FireCron(p, id) \/ FireOnce(p, id)
    \/ \E id \in ScheduleIds :
        \/ \E cron \in CronExpressions : ScheduleReminder(id, cron, "stand up")
        \/ \E at \in 1..MaxTime : ScheduleOnce(id, at, "call back")
        \/ RemoveReminder(id)
    \/ ClockTick

SpecSched == InitSched /\ [][NextSched]_vars

-----------------------------------------------------------------------------
(* Properties of the daemon and its schedules *)

\* the jobs of daemon p are the stored schedules that have not expired,
\* each job holding the schedule stored under its id
JobsMatchStore(p) ==
    \A id \in ScheduleIds :
        procs[p].cronJobs[id] = StartOrDrop(schedules.byId[id])

\* C32: after a daemon reloads the schedules file, its running jobs are the
\* stored, non-expired schedules, and each job fires with the expression
\* and payload now stored under its id, also when an id that had a job was
\* rewritten.
C32_ReloadMatchesStore ==
    [][\A p \in Procs :
        procs'[p].reloads = procs[p].reloads + 1 => JobsMatchStore(p)']_vars

\* the one-shot fired by the step, if it fired one
FiredNow == fired'[Len(fired')].schedule

OneShotFiredOnce ==
    \A i, j \in 1..Len(fired) :
        (i < j /\ fired[i].schedule.type = "once")
            => fired[i].schedule # fired[j].schedule

\* a one-shot that has just fired is in no daemon's jobs and not in the store
FiredOneShotIsRemoved ==
    (Len(fired') > Len(fired) /\ FiredNow.type = "once")
        => /\ \A q \in Procs : procs'[q].cronJobs[FiredNow.id] # FiredNow
           /\ schedules'.byId[FiredNow.id] # FiredNow

\* a one-shot found expired by a load or reload is removed and not fired
ExpiredOneShotIsDropped ==
    \A p \in Procs, id \in ScheduleIds :
        (/\ procs[p].pc \in {"written", "up"}
         /\ procs'[p].pc = "up"
         /\ procs'[p].reloads = procs[p].reloads + 1 \/ procs[p].pc = "written"
         /\ procs[p].cronJobs[id] = NoSched
         /\ Expired(schedules.byId[id]))
            => /\ schedules'.byId[id] = NoSched
               /\ procs'[p].cronJobs[id] = NoSched
               /\ fired' = fired

\* C33: a one-shot reminder fires at most once; once it has fired it is
\* gone from the running jobs and from the stored schedules; a one-shot
\* whose time has passed when the schedules are loaded is removed without
\* firing.
C33_OneShotFiresOnce ==
    []OneShotFiredOnce /\ [][FiredOneShotIsRemoved /\ ExpiredOneShotIsDropped]_vars

PastStartup(p) == procs[p].pc \in {"written", "up"}

\* C34: at most one daemon process is past startup at any time.
C34_OneDaemonPastStartup ==
    Cardinality({p \in Procs : PastStartup(p)}) <= 1

-----------------------------------------------------------------------------
(* The pending-context file: the daemon appends, prompt hooks read and clear *)

MaxMessages == 3

\* the prompt-submit hook of the script and the chat hook of the plugin
Consumers == {"hook", "plugin"}

PendFrame == UNCHANGED <<parseVars, convVars, memVars, searchVars, callVars, hookVars,
                         schedVars, handleVars>>

\* writePendingContext: appendFileSync of the next reminder message
WritePendingContext ==
    /\ pendingFile.appended < MaxMessages
    /\ pendingFile' = [lines |-> Append(pendingFile.lines, pendingFile.appended + 1),
                       appended |-> pendingFile.appended + 1]
    /\ UNCHANGED <<consumer, delivered>>
    /\ PendFrame

\* inject_pending_context: `cat` of a non-empty file;
\* consumePendingContext: readFileSync
ReadPending(c) ==
    /\ consumer[c] = "idle"
    /\ pendingFile.lines # << >>
    /\ Len(delivered) + Len(pendingFile.lines) <= 2 * MaxMessages
    /\ delivered' = delivered \o pendingFile.lines
    /\ consumer' = [consumer EXCEPT ![c] = "read"]
    /\ UNCHANGED pendingFile
    /\ PendFrame

\* inject_pending_context: `: > file`; consumePendingContext: unlinkSync
ClearPending(c) ==
    /\ consumer[c] = "read"
    /\ pendingFile' = [pendingFile EXCEPT !.lines = << >>]
    /\ consumer' = [consumer EXCEPT ![c] = "idle"]
    /\ UNCHANGED delivered
    /\ PendFrame

InitPending ==
    /\ pendingFile = [lines |-> << >>, appended |-> 0]
    /\ consumer = [c \in Consumers |-> "idle"]
    /\ delivered = << >>
    /\ SchedUnused
    /\ HandleUnused
    /\ stateDisk = NoCall
    /\ sessions = NoCall
    /\ SearchUnused!1
    /\ SearchUnused!2
    /\ SearchUnused!3
    /\ SearchUnused!4
    /\ SearchUnused!5
    /\ ConvIdle
    /\ ParseIdle
    /\ MemUnused

NextPending ==
    \/ WritePendingContext
    \/ \E c \in Consumers : ReadPending(c) \/ ClearPending(c)

SpecPending == InitPending /\ [][NextPending]_vars

TimesDelivered(m) == Cardinality({i \in 1..Len(delivered) : delivered[i] = m})
InFile(m) == \E i \in 1..Len(pendingFile.lines) : pendingFile.lines[i] = m

\* C35: every message appended to the pending-context file is delivered to
\* exactly one prompt: none is delivered twice, and none leaves the file
\* undelivered.
C35_PendingDeliveredExactlyOnce ==
    \A m \in 1..pendingFile.appended :
        /\ TimesDelivered(m) <= 1
        /\ TimesDelivered(m) = 0 => InFile(m)

-----------------------------------------------------------------------------
(* The reindex queue drains: the daemon with its timers firing *)

MaxQueued == 2

\* the watcher reports an edit, MaxQueued times at most
QueueEvent(f, kind) == reindexTimer < MaxQueued /\ WatcherEvent(f, kind)

NextQueue ==
    \/ \E f \in EntityFiles, kind \in {"write", "unlink"} : QueueEvent(f, kind)
    \/ \E d \in TickMs : Tick(d)
    \/ \E t \in timers, r \in ReindexSlots : TimerFires(t, r)
    \/ \E r \in ReindexSlots, k \in 0..MaxItems : IndexNextPath(r, k)

\* time passes, due timeouts run their callback, and an awaited
\* indexEntityFile call settles
FairDaemon ==
    /\ InitMem
    /\ [][NextQueue]_vars
    /\ WF_vars(\E d \in TickMs : Tick(d))
    /\ WF_vars(\E t \in timers, r \in ReindexSlots : TimerFires(t, r))
    /\ WF_vars(\E r \in ReindexSlots, k \in 0..MaxItems : IndexNextPath(r, k))

Queued(f) == f \in Elements(reindexQueue)

\* the path waits in no queue and no running pass, and a pass has called
\* indexEntityFile on it
HandedOver(f) ==
    /\ ~Queued(f)
    /\ \A r \in ReindexSlots : f \notin Elements(reindex[r].paths)
    /\ \E r \in ReindexSlots : f \in Elements(reindex[r].calls)

\* C36: every path given to queueReindex is in the end handed to
\* indexEntityFile, also a path queued while an earlier pass still runs.
C36_QueuedPathIsIndexed ==
    \A f \in EntityFiles : Queued(f) ~> HandedOver(f)

\* the second pass, begun while the first still runs, has made its call
C36_Witness ==
    /\ reindex["r1"].pc = "run"
    /\ reindex["r2"].pc = "done"
    /\ reindex["r2"].calls # << >>
    /\ reindexQueue = << >>

-----------------------------------------------------------------------------
(* The persisted IndexState against the conversations vector index *)

StoredIds == {x.id : x \in convStore}

RecordedIds ==
    UNION {Elements(persisted.state.files[f].exchangeIds) : f \in Files}

\* C37: in every reachable state, also after a pass that failed part way
\* and while two passes overlap, every exchange id recorded in the
\* persisted IndexState is the id of an item of the conversations index
C37_RecordedIdsAreStored == persisted.exists => RecordedIds \subseteq StoredIds

\* a pass has failed at an upsert after an earlier pass recorded ids
C37_Witness ==
    /\ \E p \in Passes : pass[p].pc = "failed" /\ pass[p].upserts > 0
    /\ persisted.exists
    /\ RecordedIds # {}

-----------------------------------------------------------------------------
(* The memoized vector-store accessors: getIndex, getConversationIndex and
   the plugin's getMemoryIndex, with the configured state root changing *)

MaxCalls == 2
MaxRootChanges == 2

\* config.root of config.json, read by getStateRoot on every call
Roots == {"rootA", "rootB"}
Accessors == {"getIndex", "getConversationIndex", "getMemoryIndex"}
CallerSlots == {"c1", "c2"}

NoPath == << >>

\* join(getIndexDir(), "vectors" | "conversations")
IndexPath(root, a) ==
    <<root, ".index", IF a = "getConversationIndex" THEN "conversations" ELSE "vectors">>

IndexPaths == {IndexPath(r, a) : r \in Roots, a \in Accessors}

\* getIndex and getConversationIndex keep the path next to the handle
TracksPath(a) == a # "getMemoryIndex"

NoCache == [index |-> NoPath, indexPath |-> NoPath]
IdleCaller == [pc |-> "idle", accessor |-> "none", resolved |-> NoPath,
               target |-> NoPath, got |-> NoPath, created |-> FALSE]

HandleFrame == UNCHANGED <<parseVars, convVars, memVars, searchVars, callVars, hookVars,
                           schedVars, pendVars>>

\* the cache after "invalidate cache if path changed"
Invalidated(a, cur) ==
    IF TracksPath(a) /\ handle[a].index # NoPath /\ handle[a].indexPath # cur
    THEN NoCache ELSE handle[a]

\* `return index`: the handle the module variable holds at that moment
Returned(cl, a, h, disk) ==
    [cl EXCEPT !.pc = "returned", !.got = h[a].index,
               !.created = disk[h[a].index].created]

\* an accessor is called: the synchronous part up to the first await
GetHandle(c, a) ==
    /\ callers.slot[c].pc = "idle"
    /\ callers.calls < MaxCalls
    /\ LET cur == IndexPath(stateRoot.root, a)
           cached == Invalidated(a, cur)
           hit == cached.index # NoPath
           started == [IdleCaller EXCEPT !.accessor = a, !.resolved = cur]
           kept == [handle EXCEPT ![a] = cached]
       IN  IF hit
           THEN /\ handle' = kept
                /\ callers' = [slot |-> [callers.slot EXCEPT ![c] =
                                   Returned(started, a, kept, indexDisk)],
                               calls |-> callers.calls + 1]
                /\ UNCHANGED indexDisk
           ELSE /\ handle' = [handle EXCEPT ![a] =
                                [index |-> cur,
                                 indexPath |-> IF TracksPath(a) THEN cur ELSE NoPath]]
                /\ indexDisk' = [indexDisk EXCEPT ![cur].dir = TRUE]
                /\ callers' = [slot |-> [callers.slot EXCEPT ![c] =
                                   [started EXCEPT !.pc = "isIndexCreated",
                                                   !.target = cur]],
                               calls |-> callers.calls + 1]
    /\ UNCHANGED stateRoot
    /\ HandleFrame

\* the awaited isIndexCreated() of the handle just made resolves: with an
\* index on disk the accessor returns, otherwise it calls createIndex() on
\* the handle the module variable holds now
IsIndexCreated(c) ==
    /\ callers.slot[c].pc = "isIndexCreated"
    /\ LET cl == callers.slot[c]
           a == cl.accessor
       IN  callers' = [callers EXCEPT !.slot[c] =
               IF indexDisk[cl.target].created
               THEN Returned(cl, a, handle, indexDisk)
               ELSE [cl EXCEPT !.pc = "createIndex", !.target = handle[a].index]]
    /\ UNCHANGED <<stateRoot, handle, indexDisk>>
    /\ HandleFrame

\* the awaited createIndex() resolves and the accessor returns
CreateIndex(c) ==
    /\ callers.slot[c].pc = "createIndex"
    /\ LET cl == callers.slot[c]
           disk == [indexDisk EXCEPT ![cl.target].created = TRUE,
                                     ![cl.target].creates = @ + 1]
       IN  /\ indexDisk' = disk
           /\ callers' = [callers EXCEPT !.slot[c] =
                              Returned(cl, cl.accessor, handle, disk)]
    /\ UNCHANGED <<stateRoot, handle>>
    /\ HandleFrame

\* the caller is done with the handle
ReleaseHandle(c) ==
    /\ callers.slot[c].pc = "returned"
    /\ callers' = [callers EXCEPT !.slot[c] = IdleCaller]
    /\ UNCHANGED <<stateRoot, handle, indexDisk>>
    /\ HandleFrame

\* config.json is edited: another root is configured
ChangeRoot(r) ==
    /\ r # stateRoot.root
    /\ stateRoot.changes < MaxRootChanges
    /\ stateRoot' = [root |-> r, changes |-> stateRoot.changes + 1]
    /\ UNCHANGED <<handle, indexDisk, callers>>
    /\ HandleFrame

InitHandle ==
    /\ stateRoot = [root |-> "rootA", changes |-> 0]
    /\ handle = [a \in Accessors |-> NoCache]
    /\ indexDisk = [p \in IndexPaths |-> [dir |-> FALSE, created |-> FALSE, creates |-> 0]]
    /\ callers = [slot |-> [c \in CallerSlots |-> IdleCaller], calls |-> 0]
    /\ SchedUnused
    /\ PendUnused
    /\ stateDisk = NoCall
    /\ sessions = NoCall
    /\ SearchUnused!1
    /\ SearchUnused!2
    /\ SearchUnused!3
    /\ SearchUnused!4
    /\ SearchUnused!5
    /\ ConvIdle
    /\ ParseIdle
    /\ MemUnused

NextHandle ==
    \/ \E c \in CallerSlots, a \in Accessors : GetHandle(c, a)
    \/ \E c \in CallerSlots : IsIndexCreated(c)
    \/ \E c \in CallerSlots : CreateIndex(c)
    \/ \E c \in CallerSlots : ReleaseHandle(c)
    \/ \E r \in Roots : ChangeRoot(r)

SpecHandle == InitHandle /\ [][NextHandle]_vars

\* C38: the handle an accessor returns refers to the storage path resolved
\* from the state root configured when the accessor was called.
C38_HandleAtResolvedPath ==
    \A c \in CallerSlots :
        callers.slot[c].pc = "returned" => callers.slot[c].got = callers.slot[c].resolved

\* C39: a caller of getIndex or getConversationIndex gets its handle only
\* once the index exists on disk, and no index is created more than once.
C39_HandleAfterSingleCreate ==
    /\ \A c \in CallerSlots :
          (callers.slot[c].pc = "returned" /\ TracksPath(callers.slot[c].accessor))
              => callers.slot[c].created
    /\ \A p \in IndexPaths : indexDisk[p].creates <= 1

-----------------------------------------------------------------------------
(* expandConversation: the messages of a session around a target message *)

MaxSession == 4
MaxContext == 3

SessionKinds == {"user", "toolResult", "noise", "assistant", "toolUse", "malformed"}

Stamp(i) == "t" \o ToString(i)

\* line i of a session log, by what it holds
SessionLine(kind, i) ==
    CASE kind = "user" ->
           Line("user", Str(<<Chars("Fix the bug", 11)>>), Uuid(i), "s1", "main", Stamp(i))
      [] kind = "toolResult" ->
           Line("user", Blocks(<<ToolResultBlock>>), Uuid(i), "s1", "main", Stamp(i))
      [] kind = "noise" ->
           Line("user", Str(<<Marker("<system-reminder>", 17), Chars("context", 7)>>),
                Uuid(i), "s1", "main", Stamp(i))
      [] kind = "assistant" ->
           Line("assistant", Str(<<Chars("Fixed it by adding a mutex", 26)>>),
                Uuid(i), "s1", "main", Stamp(i))
      [] kind = "toolUse" ->
           Line("assistant", Blocks(<<ToolUseBlock>>), Uuid(i), "s1", "main", Stamp(i))
      [] OTHER -> MalformedLine

SessionLogs ==
    UNION {{[i \in 1..n |-> SessionLine(kinds[i], i)] : kinds \in [1..n -> SessionKinds]} :
           n \in 0..MaxSession}

\* the message ids a caller can ask for: those of the lines, one that no
\* line has, and the "" the tool passes when none was given
TargetIds == {Uuid(i) : i \in 1..MaxSession} \cup {Uuid(0), ""}

\* the loop over the lines: the messages pushed, uuid included
RECURSIVE ExpandMessages(_)
ExpandMessages(lines) ==
    IF lines = << >> THEN << >>
    ELSE LET msg == lines[Len(lines)]
             before == ExpandMessages(SubSeq(lines, 1, Len(lines) - 1))
             userText == extractUserText(msg.content)
             assistantText == extractAssistantText(msg.content)
             Pushed(role, text) ==
                 before \o <<[role |-> role, content |-> text,
                              timestamp |-> msg.timestamp, uuid |-> msg.uuid]>>
         IN  IF msg.type = "user" /\ HasContent(msg.content)
             THEN IF isToolResult(msg.content) THEN before
                  ELSE IF userText = EmptyText \/ isNoiseContent(userText) THEN before
                  ELSE Pushed("user", userText)
             ELSE IF msg.type = "assistant" /\ HasContent(msg.content)
             THEN IF assistantText = EmptyText THEN before
                  ELSE Pushed("assistant", assistantText)
             ELSE before

\* .map(({ uuid, ...rest }) => rest)
WithoutUuid(ms) ==
    [i \in 1..Len(ms) |-> [role |-> ms[i].role, content |-> ms[i].content,
                           timestamp |-> ms[i].timestamp]]

\* Array.prototype.slice(start, end) for 0 <= start
JsSlice(s, start, end) == SubSeq(s, start + 1, IF end < Len(s) THEN end ELSE Len(s))

\* Array.prototype.slice(-n) for n >= 0: -0 is 0, the whole array
JsSliceLast(s, n) ==
    IF n = 0 THEN s
    ELSE SubSeq(s, IF Len(s) - n < 0 THEN 1 ELSE Len(s) - n + 1, Len(s))

\* messages.findIndex(m => m.uuid === messageUuid), -1 when there is none
FindIndex(ms, messageUuid) ==
    FirstIndex({i \in 1..Len(ms) : ms[i].uuid = messageUuid}) - 1

\* the branch of the first user message pushed that has one
ExpandBranch(ms) ==
    IF \E i \in 1..Len(ms) : ms[i].role = "user" THEN "main" ELSE NoVal

expandConversation(lines, messageUuid, contextMessages) ==
    LET messages == ExpandMessages(lines)
        targetIdx == FindIndex(messages, messageUuid)
        half == contextMessages \div 2
        start == IF targetIdx - half < 0 THEN 0 ELSE targetIdx - half
        end == IF start + contextMessages < Len(messages)
               THEN start + contextMessages ELSE Len(messages)
    IN  [messages |-> IF targetIdx = -1
                      THEN WithoutUuid(JsSliceLast(messages, contextMessages))
                      ELSE WithoutUuid(JsSlice(messages, start, end)),
         branch |-> ExpandBranch(messages)]

\* expand_conversation: the tool calls expandConversation on the session
ExpandConversation ==
    /\ output = NoCall
    /\ output' = [op |-> "expandConversation",
                  result |-> expandConversation(input.lines, input.messageUuid,
                                                input.contextMessages)]
    /\ UNCHANGED <<input, parseVars, convVars, memVars, searchVars, hookVars, sysVars>>

InitExpand ==
    /\ input \in [lines : SessionLogs, messageUuid : TargetIds,
                  contextMessages : 0..MaxContext]
    /\ output = NoCall
    /\ HooksUnused
    /\ SysUnused
    /\ convHits = << >>
    /\ memHits = << >>
    /\ search = NoSearch
    /\ ConvIdle
    /\ ParseIdle
    /\ MemUnused

NextExpand == ExpandConversation

SpecExpand == InitExpand /\ [][NextExpand]_vars

\* the stamps of the messages, in order
Stamps(ms) == [i \in 1..Len(ms) |-> ms[i].timestamp]

\* s is a run of consecutive elements of t
IsRunOf(s, t) == \E k \in 0..Len(t) : k + Len(s) <= Len(t) /\ s = SubSeq(t, k + 1, k + Len(s))

\* C40: expandConversation returns at most N messages, in transcript order;
\* a target found among the session's messages is among those returned, and
\* when it is not found the last N messages are returned.
C40_ExpandAroundTarget ==
    output # NoCall =>
        LET all == ExpandMessages(input.lines)
            n == input.contextMessages
            got == output.result.messages
            t == FindIndex(all, input.messageUuid)
            lastN == SubSeq(all, IF Len(all) - n < 0 THEN 1 ELSE Len(all) - n + 1, Len(all))
        IN  /\ Len(got) <= n
            /\ IsRunOf(got, WithoutUuid(all))
            /\ t # -1 => \E i \in 1..Len(got) : got[i].timestamp = all[t + 1].timestamp
            /\ t = -1 => got = WithoutUuid(lastN)

=============================================================================
